---- MODULE Spec2Model ----
(***************************************************************************)
(* A model of the EVM airdrop indexing pipeline: the five scanners that    *)
(* share one relational database as queue and store.                      *)
(*                                                                         *)
(* The database is modelled by its committed tables plus the write set of  *)
(* every open transaction; a scanner run is a sequence of steps, one per   *)
(* suspension point that matters for the committed state.                 *)
(***************************************************************************)
EXTENDS Integers, Sequences, FiniteSets, TLC

(***************************************************************************)
(* Bounds of the model.                                                    *)
(***************************************************************************)
\* the highest chain head the provider ever reports
MaxHead == 4
\* evm_network.finality_depth of the one modelled network
FinalityDepth == 1
\* operator settings of the NetworkScanner (config, passed to the constructor)
CatchUpThreshold == 2
CatchUpBatchSize == 2
FollowBatchSize == 1
\* the evm_block rows the BlockScanner starts from
NBlocks == 3
\* EVM_BLOCK_SCANNER_BATCH_SIZE
BlockBatchSize == 2
\* EVM_TRANSACTION_SCANNER_BATCH_SIZE
TxBatchSize == 2
\* the TxScanner runs a behaviour holds at most
MaxTxRuns == 2
\* the airdrop contracts the DateScanner starts from
NAirdrops == 3
\* EVM_CONTRACT_DATE_SCANNER_BATCH_SIZE
DateBatchSize == 2
\* the evm_contract_source rows the SourceScanner starts from
NSources == 2
\* EVM_CONTRACT_SOURCE_SCANNER_BATCH_SIZE
SrcBatchSize == 2
\* the SourceScanner runs a behaviour holds at most
MaxSrcRuns == 3

\* the tasks that call one provider client at the same time
NCallers == 2

\* int(time.time()) while the model runs
Now == 2

\* delay_seconds of a provider client, in ticks of the event loop's clock
Delay == 2
\* the rows of the batch whose tasks share the run's connection
NBatchTasks == 2
\* the largest eth_call result taken for a date (10_000_000_000 in the code)
TimestampLimit == 5
\* the last tick of the event loop's clock the model follows
MaxClock == 4
\* the 0.01 s MoralisAPIClient._request adds to its sleep: one tick
SleepExtra == 1

\* the longest path among the keys of a sources map, in names
MaxParts == 2
\* the most entries of a sources map
MaxKeys == 2
\* detectors in one Slither report
MaxDetectors == 2
\* MySQLConnector(minsize=1, maxsize=10, autocommit=False)
PoolMaxSize == 10

\* SQL NULL for an integer column (no block number is negative)
Null == 0 - 1

\* the pipeline instances (processes) that may run against the database
Procs == {1, 2}

Min(a, b) == IF a < b THEN a ELSE b

RECURSIVE SetToSeq(_)
\* the elements of a finite set of integers, ascending
SetToSeq(S) ==
    IF S = {} THEN <<>>
    ELSE LET m == CHOOSE x \in S : \A y \in S : x <= y
         IN  <<m>> \o SetToSeq(S \ {m})

VARIABLES
    procs,          \* the pipeline instances that are running
    chain_head,     \* the chain's head block number, as the provider reports it
    evm_network,    \* the committed evm_network row of the modelled chain
    evm_block,      \* the committed evm_block table, in insertion (id) order
    net_w,          \* per instance: the NetworkScanner's run (its locals)
    evm_tx,         \* the committed evm_block_create_contract_transaction table
    blk_w,          \* per instance: the BlockScanner's run
    evm_contract,   \* the committed evm_contract table (a set of rows)
    evm_contract_source,  \* the committed evm_contract_source table
    contract_ai,    \* AUTO_INCREMENT of evm_contract: the last id handed out
    tx_w,           \* per instance: the TxScanner's run and its live tasks
    tx_orphans,     \* per instance: tasks of failed runs that are still running
    tx_conn,        \* per instance: the uncommitted writes on the TxScanner's
                    \* pooled connection
    evm_airdrop,    \* the committed evm_airdrop_eligibility_contract table
    date_w,         \* per instance: the DateScanner's run
    src_w,          \* per instance: the SourceScanner's run and its live tasks
    src_orphans,    \* per instance: SourceScanner tasks of failed runs that
                    \* are still running
    src_conn,       \* per instance: the uncommitted writes on the
                    \* SourceScanner's pooled connection
    src_facts,      \* per source: what the ABI filter, Slither, the LLM and
                    \* the providers answer for it
    api_parallel,   \* config.SCANNERS_API_PARALLEL_MODE
    api_lock,       \* per asyncio.Lock of services: the call that holds it
    api_pc,         \* per call of a scanner client's _request: where it is
    api_clock,      \* asyncio.get_event_loop().time(), in ticks
    api_last,       \* per client: self._last_request_time
    api_stamp,      \* per call: now + sleep_duration of the call that sleeps
    api_started,    \* per client: the tick its latest HTTP request started
                    \* at (Null before the first one)
    prep,           \* SlitherAnalyzer.analyze_source_code of one source: the
                    \* sources map, the entry it is at, the file system
    batch_conn,     \* the connection of one TxScanner or SourceScanner run
                    \* and the tasks gather runs on it: per task the steps
                    \* it has left and whether the first of them is under way
    stage,          \* _process_source of one source: the stage it is at,
                    \* the calls it made, what they answered and what it
                    \* executed on the connection
    pool            \* the DB pool of services.db_connector: the connections
                    \* checked out, how many of them were closed without
                    \* being given back, and per scanner what it holds

net_vars == <<evm_network, evm_block, net_w>>
blk_vars == <<evm_tx, blk_w>>
tx_vars == <<evm_contract, evm_contract_source, contract_ai, tx_w, tx_orphans, tx_conn>>
date_vars == <<evm_airdrop, date_w>>
src_vars == <<src_w, src_orphans, src_conn, src_facts>>
api_vars == <<api_parallel, api_lock, api_pc, api_clock, api_last, api_stamp, api_started>>
util_vars == <<prep, batch_conn, stage, pool>>
vars == <<procs, chain_head, evm_network, evm_block, net_w, evm_tx, blk_w,
          evm_contract, evm_contract_source, contract_ai, tx_w, tx_orphans, tx_conn,
          evm_airdrop, date_w, src_w, src_orphans, src_conn, src_facts,
          api_parallel, api_lock, api_pc, api_clock, api_last, api_stamp, api_started,
          prep, batch_conn, stage, pool>>

(***************************************************************************)
(* NetworkScanner                                                          *)
(***************************************************************************)
\* what the provider may answer to eth_blockNumber: the chain only grows
Heads == chain_head..MaxHead

net_idle == [pc |-> "idle", last_saved_block |-> Null, latest |-> Null,
             safe_latest_block |-> Null, current_start_block |-> Null,
             batch_size |-> 0, aborted |-> FALSE, committed_end |-> Null,
             inserted |-> {}, unlock |-> "none"]

\* a BlockScanner between runs; result, batch and answers remember the last
\* run: how it ended, the rows it took and what the provider answered for each
blk_idle == [pc |-> "idle", lease |-> {}, result |-> "none", batch |-> {},
             answers |-> <<>>]

\* a TxScanner between runs: tasks maps the leased row ids to their tasks,
\* done is the set of rows whose batch committed, runs counts the runs,
\* failure tells what ended the last run that failed
tx_idle == [pc |-> "idle", lease |-> {}, tasks |-> <<>>, done |-> {}, runs |-> 0,
            failure |-> "none"]

\* a connection outside a transaction: status is a set of <<row id, value>>
\* updates of the creation-transaction table, contracts and sources the
\* inserted rows
no_writes == [status |-> {}, contracts |-> {}, sources |-> {}]

\* a DateScanner between steps: step is the step of run that comes next (or
\* is running), locked the rows its open transaction holds, checking the rows
\* it took for a provider call, invalid the rows it called invalidate_method
\* for before the fan-out, txn whether its connection is in a transaction,
\* rejected the rows for which the claim check it has just committed got a
\* number above the limit, failed the rows for which the eth_call of that
\* check met an error of the provider
date_idle == [pc |-> "idle", step |-> "expire", locked |-> {}, checking |-> {},
              invalid |-> {}, txn |-> FALSE, rejected |-> {}, failed |-> {}]

\* no run uses the batch connection
batch_idle == [scanner |-> "none", pc |-> "idle", tasks |-> <<>>]

\* a SourceScanner outside a run; runs counts the runs it began, failed_by is
\* the outcome of the task whose exception ended its last run ("none": the
\* last run committed, or the task had no answers yet)
src_idle == [pc |-> "idle", lease |-> {}, tasks |-> <<>>, runs |-> 0, failed_by |-> "none"]

\* a SourceScanner connection outside a transaction: status and security are
\* sets of <<source id, value>> updates of evm_contract_source, airdrops the
\* rows inserted into evm_airdrop_eligibility_contract, in order
src_no_writes == [status |-> {}, security |-> {}, airdrops |-> <<>>]

\* the scanner clients services constructs (two of the five, all of them
\* EtherscanAPIClient)
ScannerClients == {"api_client_evm", "api_client_block"}

\* the provider clients: the scanner clients and the MoralisAPIClient
ApiClients == ScannerClients \cup {"api_client_token_metadata"}

\* the concurrent calls of _request: caller k of a client (the scanners fan
\* out over their clients, the Moralis client has one caller at a time)
ApiCalls == (ScannerClients \X (1..NCallers)) \cup {<<"api_client_token_metadata", 1>>}

\* the asyncio.Lock objects services may create for these clients
ApiLocks == ScannerClients \cup {"single_global_lock", "api_rate_limit_lock_moralis"}

\* the holder of a lock nobody holds
no_call == <<"nobody", 0>>

\* the scanners that take connections from the pool
PoolUsers == {"network", "block", "tx", "source", "date"}

\* the pool with every connection in it
pool_idle == [used |-> 0, closed |-> 0, pc |-> [s \in PoolUsers |-> "idle"]]

\* _process_source has not been called
stage_idle == [pc |-> "idle", calls |-> <<>>, abi_hit |-> FALSE, report |-> <<>>,
               security_status |-> 0, llm |-> <<>>, token_address |-> "none",
               metadata |-> "none", executed |-> <<>>, row |-> <<>>]

\* no analysis under way: an empty sources map and an empty file system
prep_idle == [pc |-> "idle", sources |-> <<>>, i |-> 1, files |-> {}, dirs |-> {},
              error |-> "none", result |-> "none"]

\* the block numbers that have a row in evm_block
block_numbers == {evm_block[i].block_number : i \in DOMAIN evm_block}

\* INSERT IGNORE INTO evm_block: rows whose (chain, block_number) is new are
\* appended in the order given, the others are dropped
RECURSIVE batch_insert_blocks(_, _)
batch_insert_blocks(table, nums) ==
    IF nums = <<>> THEN table
    ELSE LET n == Head(nums)
             have == {table[i].block_number : i \in DOMAIN table}
             t2 == IF n \in have THEN table
                   ELSE Append(table, [block_number |-> n, processing_status |-> 0,
                                       discovered_at |-> "insert"])
         IN  batch_insert_blocks(t2, Tail(nums))

\* UPDATE evm_network SET last_discovered_block_number = %s
update_network_last_block(net, last_block_number) ==
    [net EXCEPT !.last_discovered_block_number = last_block_number]

\* (mutant) the end of a batch, not clipped to the safe head
current_end_block_unclipped(start, size, safe) == start + size - 1

\* the end of the batch that starts at current_start_block
current_end_block(start, size, safe) == Min(start + size - 1, safe)

\* (mutant) catch-up mode from the threshold on
choose_batch_size_from_threshold(blocks_to_scan_count) ==
    IF blocks_to_scan_count >= CatchUpThreshold THEN CatchUpBatchSize
    ELSE FollowBatchSize

\* the batch size process_network picks for a range of that many blocks
choose_batch_size(blocks_to_scan_count) ==
    IF blocks_to_scan_count > CatchUpThreshold THEN CatchUpBatchSize
    ELSE FollowBatchSize

\* EvmScanner.run: read the networks with active_status=1 and
\* processing_status=0 and start process_network on each
net_run(w) ==
    /\ w \in procs
    /\ net_w[w].pc = "idle"
    /\ evm_network.active_status = 1
    /\ evm_network.processing_status = 0
    /\ net_w' = [net_w EXCEPT ![w] =
          [net_idle EXCEPT !.pc = "lock",
             !.last_saved_block = evm_network.last_discovered_block_number]]
    /\ UNCHANGED <<util_vars, api_vars, src_vars, procs, chain_head, evm_network, evm_block, blk_vars, tx_vars, date_vars>>

\* the lock transaction: UPDATE evm_network SET processing_status = 1
start_network_processing(w) ==
    /\ w \in procs
    /\ net_w[w].pc = "lock"
    /\ \/ /\ evm_network' = [evm_network EXCEPT !.processing_status = 1]
          /\ net_w' = [net_w EXCEPT ![w].pc = "latest"]
       \/ \* the transaction fails: rollback, process_network returns
          /\ net_w' = [net_w EXCEPT ![w] = net_idle]
          /\ UNCHANGED evm_network
    /\ UNCHANGED <<util_vars, api_vars, src_vars, procs, chain_head, evm_block, blk_vars, tx_vars, date_vars>>

\* process_network, step 2 and 3: ask the provider for the head, compute the
\* range and the batch size
net_get_latest(w) ==
    /\ w \in procs
    /\ net_w[w].pc = "latest"
    /\ \/ \* the provider call raises
          /\ net_w' = [net_w EXCEPT ![w].pc = "finish"]
          /\ UNCHANGED chain_head
       \/ \E latest \in Heads :
            /\ chain_head' = latest
            /\ LET safe == latest - FinalityDepth
                last == net_w[w].last_saved_block
                start == IF last = Null THEN safe ELSE last + 1
               IN  IF start > safe
                   THEN net_w' = [net_w EXCEPT ![w].pc = "finish",
                                    ![w].latest = latest,
                                    ![w].safe_latest_block = safe]
                   ELSE net_w' = [net_w EXCEPT ![w].pc = "batch",
                                    ![w].latest = latest,
                                    ![w].safe_latest_block = safe,
                                    ![w].current_start_block = start,
                                    ![w].batch_size =
                                        choose_batch_size((safe - start) + 1)]
    /\ UNCHANGED <<util_vars, api_vars, src_vars, procs, evm_network, evm_block, blk_vars, tx_vars, date_vars>>

\* (mutant) the exception of a batch is swallowed and the loop goes on
after_failed_batch_continue(w) ==
    [net_w EXCEPT ![w].aborted = TRUE]

\* (mutant) the unlock is not in a finally block: a raising batch ends the run
after_failed_batch_no_finally(w) ==
    [net_w EXCEPT ![w] = net_idle]

\* where the batch loop of process_network goes after a batch that raised
after_failed_batch(w) ==
    [net_w EXCEPT ![w].pc = "finish", ![w].aborted = TRUE]

\* _process_batch: one transaction that fetches the blocks of the batch,
\* inserts the valid ones and moves last_discovered_block_number to the end
\* of the batch
process_batch(w) ==
    /\ w \in procs
    /\ net_w[w].pc = "batch"
    /\ LET r == net_w[w]
           endb == current_end_block(r.current_start_block, r.batch_size,
                                     r.safe_latest_block)
           nums == r.current_start_block..endb
           next == r.current_start_block + r.batch_size
       IN  \/ \* a provider call or the database raises: rollback, re-raise
              /\ net_w' = after_failed_batch(w)
              /\ UNCHANGED <<evm_network, evm_block>>
           \/ \* every call answers; valid = the answers with number and hash
              \E valid \in SUBSET nums :
                /\ evm_block' = batch_insert_blocks(evm_block, SetToSeq(valid))
                /\ evm_network' = update_network_last_block(evm_network, endb)
                /\ net_w' = [net_w EXCEPT
                      ![w].pc = IF next > r.safe_latest_block
                                THEN "finish" ELSE "batch",
                      ![w].current_start_block = next,
                      ![w].committed_end = endb,
                      ![w].inserted = r.inserted \cup (valid \ block_numbers)]
    /\ UNCHANGED <<util_vars, api_vars, src_vars, procs, chain_head, blk_vars, tx_vars, date_vars>>

\* the unlock transaction of the finally block:
\* UPDATE evm_network SET processing_status = 0
finish_network_processing(w) ==
    /\ w \in procs
    /\ net_w[w].pc = "finish"
    /\ \/ /\ evm_network' = [evm_network EXCEPT !.processing_status = 0]
          /\ net_w' = [net_w EXCEPT ![w] = [net_idle EXCEPT !.unlock = "committed",
                                               !.aborted = net_w[w].aborted]]
       \/ \* the transaction fails: rollback, "FAILED TO UNLOCK" is logged
          /\ net_w' = [net_w EXCEPT ![w] = [net_idle EXCEPT !.unlock = "failed",
                                               !.aborted = net_w[w].aborted]]
          /\ UNCHANGED evm_network
    /\ UNCHANGED <<util_vars, api_vars, src_vars, procs, chain_head, evm_block, blk_vars, tx_vars, date_vars>>

NetStep(w) ==
    \/ net_run(w)
    \/ start_network_processing(w)
    \/ net_get_latest(w)
    \/ process_batch(w)
    \/ finish_network_processing(w)

NextNet == \E w \in Procs : NetStep(w)

\* the process of instance w is killed inside process_network and started
\* again: the run and its open transaction are gone (the finally block does
\* not run), the committed rows stay; unlock and committed_end remember the
\* run that was killed
net_kill(w) ==
    /\ w \in procs
    /\ net_w[w].pc \in {"latest", "batch", "finish"}
    /\ net_w' = [net_w EXCEPT ![w] =
          [net_idle EXCEPT !.unlock = "killed",
                           !.committed_end = net_w[w].committed_end]]
    /\ UNCHANGED <<util_vars, api_vars, src_vars, procs, chain_head, evm_network, evm_block, blk_vars, tx_vars, date_vars>>

NextNetKill == NextNet \/ \E w \in Procs : net_kill(w)

\* SIGINT / SIGTERM: handle_shutdown cancels every task of instance w, each
\* task gets one CancelledError at the await it is suspended in, and the
\* process ends. CancelledError is not an Exception, so no "except Exception"
\* of process_network catches it:
\*  - in the lock transaction the try block is not entered yet, so no finally
\*    runs; the UPDATE is committed only if the server had already executed
\*    the COMMIT the task was waiting for;
\*  - inside the try block the batch's transaction is dropped with its
\*    connection (or was just committed, when the task was waiting for the
\*    COMMIT), and the finally block runs its unlock transaction, which
\*    commits or fails as in any run;
\*  - inside the finally block the unlock transaction itself is cancelled:
\*    processing_status = 0 is committed only if the server had already
\*    executed the COMMIT
handle_shutdown(w) ==
    /\ w \in procs
    /\ procs' = procs \ {w}
    /\ LET r == net_w[w]
           gone == [net_idle EXCEPT !.unlock = "cancelled",
                                    !.committed_end = r.committed_end]
       IN  CASE r.pc = "idle" ->
                  /\ UNCHANGED <<evm_network, evm_block, net_w>>
             [] r.pc = "lock" ->
                  /\ net_w' = [net_w EXCEPT ![w] = gone]
                  /\ \E commit_executed \in BOOLEAN :
                        evm_network' = IF commit_executed
                                       THEN [evm_network EXCEPT !.processing_status = 1]
                                       ELSE evm_network
                  /\ UNCHANGED evm_block
             [] r.pc = "latest" ->
                  /\ \E unlocked \in BOOLEAN :
                        /\ evm_network' = IF unlocked
                                          THEN [evm_network EXCEPT !.processing_status = 0]
                                          ELSE evm_network
                        /\ net_w' = [net_w EXCEPT ![w] =
                              [gone EXCEPT !.unlock = IF unlocked THEN "committed"
                                                      ELSE "failed"]]
                  /\ UNCHANGED evm_block
             [] r.pc = "batch" ->
                  LET endb == current_end_block(r.current_start_block, r.batch_size,
                                                r.safe_latest_block)
                      nums == r.current_start_block..endb
                  IN  \E unlocked \in BOOLEAN, commit_executed \in BOOLEAN,
                         valid \in SUBSET nums :
                        /\ ~commit_executed => valid = {}
                        /\ evm_block' = IF commit_executed
                                        THEN batch_insert_blocks(evm_block, SetToSeq(valid))
                                        ELSE evm_block
                        /\ evm_network' =
                              [(IF commit_executed
                                THEN update_network_last_block(evm_network, endb)
                                ELSE evm_network)
                               EXCEPT !.processing_status =
                                   IF unlocked THEN 0 ELSE @]
                        /\ net_w' = [net_w EXCEPT ![w] =
                              [gone EXCEPT !.unlock = IF unlocked THEN "committed"
                                                      ELSE "failed",
                                           !.committed_end =
                                               IF commit_executed THEN endb
                                               ELSE r.committed_end]]
             [] r.pc = "finish" ->
                  /\ net_w' = [net_w EXCEPT ![w] = gone]
                  /\ \E commit_executed \in BOOLEAN :
                        evm_network' = IF commit_executed
                                       THEN [evm_network EXCEPT !.processing_status = 0]
                                       ELSE evm_network
                  /\ UNCHANGED evm_block
    /\ UNCHANGED <<util_vars, api_vars, src_vars, chain_head, blk_vars, tx_vars, date_vars>>

NextNetCancel == NextNet \/ \E w \in Procs : handle_shutdown(w)

\* no scanner of any instance is inside a run
all_idle ==
    /\ net_w = [w \in Procs |-> net_idle]
    /\ blk_w = [w \in Procs |-> blk_idle]
    /\ tx_w = [w \in Procs |-> tx_idle]
    /\ tx_orphans = [w \in Procs |-> {}]
    /\ tx_conn = [w \in Procs |-> no_writes]
    /\ date_w = [w \in Procs |-> date_idle]
    /\ src_w = [w \in Procs |-> src_idle]
    /\ src_orphans = [w \in Procs |-> {}]
    /\ src_conn = [w \in Procs |-> src_no_writes]
    /\ api_lock = [l \in ApiLocks |-> no_call]
    /\ api_pc = [c \in ApiCalls |-> "idle"]
    /\ api_last = [client \in ApiClients |-> 0]
    /\ api_stamp = [c \in ApiCalls |-> 0]
    /\ api_started = [client \in ApiClients |-> Null]
    /\ prep = prep_idle
    /\ batch_conn = batch_idle
    /\ stage = stage_idle
    /\ pool = pool_idle

\* the database before the first run: one active network, nothing discovered
InitTables ==
    /\ chain_head = FinalityDepth
    /\ evm_network = [active_status |-> 1, processing_status |-> 0,
                      last_discovered_block_number |-> Null]
    /\ evm_block = <<>>
    /\ evm_tx = <<>>
    /\ evm_contract = {}
    /\ evm_contract_source = {}
    /\ contract_ai = 0
    /\ evm_airdrop = <<>>
    /\ all_idle
    /\ src_facts = <<>>
    /\ api_parallel = FALSE
    /\ api_clock = 0

\* two pipeline instances against one database
InitNet == procs = Procs /\ InitTables
SpecNet == InitNet /\ [][NextNet]_vars

\* one pipeline instance
InitNetSolo == procs = {1} /\ InitTables
SpecNetSolo == InitNetSolo /\ [][NextNet]_vars

\* the scheduler runs every scanner loop again and again, and every provider
\* call and transaction of a run ends (timeouts)
SpecNetFair == InitNetSolo /\ [][NextNet]_vars /\ \A w \in Procs : WF_vars(NetStep(w))

\* one instance that may be killed and restarted; the restarted process runs
\* its scanner loop like the first one
SpecNetKill ==
    InitNetSolo /\ [][NextNetKill]_vars /\ \A w \in Procs : WF_vars(NetStep(w))

\* one instance whose tasks may be cancelled by a signal at any await
SpecNetCancel == InitNetSolo /\ [][NextNetCancel]_vars

(***************************************************************************)
(* BlockScanner                                                            *)
(***************************************************************************)

\* the transactions of block n on the chain, as eth_getBlockByNumber lists
\* them: to = Null marks a contract creation
block_transactions(n) ==
    CASE n % 3 = 1 -> << [hash |-> 10 * n + 1, to |-> Null],
                         [hash |-> 10 * n + 2, to |-> 1] >>
      [] n % 3 = 2 -> << [hash |-> 10 * n + 1, to |-> Null],
                         [hash |-> 10 * n + 2, to |-> Null] >>
      [] OTHER     -> << [hash |-> 10 * n + 1, to |-> 1] >>

\* the ids of the evm_block rows some open BlockScanner transaction holds
\* (SELECT ... FOR UPDATE)
blk_locked == UNION {blk_w[w].lease : w \in Procs}

\* SELECT ... WHERE processing_status = 0 LIMIT n FOR UPDATE SKIP LOCKED: the
\* sets of rows the statement may return (no ORDER BY)
select_for_update(pending, locked, n) ==
    LET cands == pending \ locked
    IN  {sel \in SUBSET cands : Cardinality(sel) = Min(n, Cardinality(cands))}

\* lock_and_get_unprocessed_blocks: what it may return
lock_and_get_unprocessed_blocks ==
    select_for_update({i \in DOMAIN evm_block : evm_block[i].processing_status = 0},
                      blk_locked, BlockBatchSize)

\* (mutant) every transaction of the answer is taken for a creation
all_txs_of(i) ==
    LET txs == block_transactions(evm_block[i].block_number)
    IN  [k \in DOMAIN txs |-> [evm_block_id |-> i, transaction_hash |-> txs[k].hash]]

\* the (block_id, hash) pairs run collects from the answer for block row i
contract_txs_of(i) ==
    LET txs == block_transactions(evm_block[i].block_number)
        keep == SelectSeq(txs, LAMBDA tx : tx.to = Null /\ tx.hash # Null)
    IN  [k \in DOMAIN keep |-> [evm_block_id |-> i, transaction_hash |-> keep[k].hash]]

\* INSERT IGNORE INTO evm_block_create_contract_transaction
RECURSIVE batch_insert_contract_txs(_, _)
batch_insert_contract_txs(table, txs) ==
    IF txs = <<>> THEN table
    ELSE LET t == Head(txs)
             have == {table[i].transaction_hash : i \in DOMAIN table}
             t2 == IF t.transaction_hash \in have THEN table
                   ELSE Append(table, [evm_block_id |-> t.evm_block_id,
                                       transaction_hash |-> t.transaction_hash,
                                       processing_status |-> 0])
         IN  batch_insert_contract_txs(t2, Tail(txs))

RECURSIVE all_contract_txs(_, _)
\* all_contract_txs_to_insert: the pairs of the blocks of ids (ascending) whose
\* answer held a transaction list
all_contract_txs(ids, ans) ==
    IF ids = <<>> THEN <<>>
    ELSE (IF ans[Head(ids)] = "ok" THEN contract_txs_of(Head(ids)) ELSE <<>>)
         \o all_contract_txs(Tail(ids), ans)

\* mark_blocks_as_completed_batch: UPDATE evm_block SET processing_status = 2,
\* discovered_at = CURRENT_TIMESTAMP (discovered_at tells which statement
\* stamped the row last: the INSERT or this UPDATE)
mark_blocks_as_completed_batch(table, ids) ==
    [i \in DOMAIN table |->
        IF i \in ids THEN [table[i] EXCEPT !.processing_status = 2,
                                           !.discovered_at = "completion"]
        ELSE table[i]]

\* the tables after the batch transaction committed
blk_committed(lease, ans) ==
    [blocks |-> mark_blocks_as_completed_batch(evm_block, lease),
     txs |-> batch_insert_contract_txs(evm_tx, all_contract_txs(SetToSeq(lease), ans))]

\* (mutant) a failed provider call is taken for a block without transactions
\* and the batch commits
blk_failed_commits(lease, ans) == blk_committed(lease, ans)

\* the tables after the batch transaction was rolled back
blk_rolled_back(lease, ans) == [blocks |-> evm_block, txs |-> evm_tx]

\* EvmBlockScanner.run up to the fan-out: begin, select and lock the batch,
\* set it to processing_status = 1 inside the transaction
blk_lock(w) ==
    /\ w \in procs
    /\ blk_w[w].pc = "idle"
    /\ \E sel \in lock_and_get_unprocessed_blocks :
          blk_w' = [blk_w EXCEPT ![w] =
             IF sel = {} THEN [blk_idle EXCEPT !.result = "empty"]
             ELSE [blk_idle EXCEPT !.pc = "api", !.lease = sel, !.batch = sel]]
    /\ UNCHANGED <<util_vars, api_vars, src_vars, procs, chain_head, net_vars, evm_tx, tx_vars, date_vars>>

\* EvmBlockScanner.run from the fan-out on: the provider answers for every
\* block of the batch, then either the inserts and the status 2 commit, or
\* the transaction is rolled back
blk_finish(w) ==
    /\ w \in procs
    /\ blk_w[w].pc = "api"
    /\ \E ans \in [blk_w[w].lease -> {"ok", "null", "raise"}], dbfail \in BOOLEAN :
          LET failed == dbfail \/ \E i \in blk_w[w].lease : ans[i] = "raise"
              after == IF failed THEN blk_rolled_back(blk_w[w].lease, ans)
                       ELSE blk_committed(blk_w[w].lease, ans)
          IN  /\ evm_block' = after.blocks
              /\ evm_tx' = after.txs
              /\ blk_w' = [blk_w EXCEPT ![w].pc = "idle", ![w].lease = {},
                    ![w].result = IF failed THEN "rolled_back" ELSE "committed",
                    ![w].answers = ans]
    /\ UNCHANGED <<util_vars, api_vars, src_vars, procs, chain_head, evm_network, net_w, tx_vars, date_vars>>

BlkStep(w) == blk_lock(w) \/ blk_finish(w)

NextBlk == \E w \in Procs : BlkStep(w)

\* two BlockScanner instances after the NetworkScanner discovered blocks
\* 1..NBlocks
InitBlk ==
    /\ procs = Procs
    /\ chain_head = FinalityDepth + NBlocks
    /\ evm_network = [active_status |-> 1, processing_status |-> 0,
                      last_discovered_block_number |-> NBlocks]
    /\ evm_block = [i \in 1..NBlocks |-> [block_number |-> i, processing_status |-> 0,
                                           discovered_at |-> "insert"]]
    /\ evm_tx = <<>>
    /\ evm_contract = {}
    /\ evm_contract_source = {}
    /\ contract_ai = 0
    /\ evm_airdrop = <<>>
    /\ all_idle
    /\ src_facts = <<>>
    /\ api_parallel = FALSE
    /\ api_clock = 0
SpecBlk == InitBlk /\ [][NextBlk]_vars

(***************************************************************************)
(* TxScanner                                                               *)
(***************************************************************************)
\* what the explorer holds for the transaction with this hash: its receipt
\* has no contractAddress, or the contract is verified (plain source),
\* unverified (empty SourceCode), or its SourceCode starts with a brace and
\* is no JSON
receipt_of(hash) ==
    CASE hash % 4 = 1 -> "verified"
      [] hash % 4 = 2 -> "unverified"
      [] hash % 4 = 3 -> "no_address"
      [] OTHER        -> "malformed"

\* the statements _process_transaction executes on the connection after the
\* provider answered
tx_statements(kind) ==
    CASE kind = "verified"   -> <<"insert_contract", "insert_source", "status2">>
      [] kind = "unverified" -> <<"insert_contract", "status2">>
      [] kind = "no_address" -> <<"status2">>
      [] OTHER               -> <<"raise">>

\* receipt['contractAddress'] of the transaction with this hash
contract_address_of(hash) == hash \div 10

\* a task that has not got its provider answers yet
new_task == [todo |-> <<"api">>, cid |-> Null]

\* UPDATE evm_block_create_contract_transaction SET processing_status = v
\* WHERE id IN ids, on a connection with the writes c
batch_update_tx_status(c, ids, v) ==
    [c EXCEPT !.status = {p \in c.status : p[1] \notin ids} \cup {<<i, v>> : i \in ids}]

\* the next statement of task t for row i on a connection with the writes c,
\* ai being the last evm_contract id: save_contract_and_source,
\* save_unverified_contract and the no-address update, statement by statement
execute(t, i, c, ai) ==
    LET st == Head(t.todo)
        verified == Len(t.todo) = 3
    IN  CASE st = "insert_contract" ->
               [task |-> [todo |-> Tail(t.todo), cid |-> ai + 1],
                conn |-> [c EXCEPT !.contracts = @ \cup
                            {[id |-> ai + 1, evm_tx_id |-> i, verified |-> verified,
                              contract_address |->
                                 contract_address_of(evm_tx[i].transaction_hash)]}],
                ai |-> ai + 1]
          [] st = "insert_source" ->
               [task |-> [t EXCEPT !.todo = Tail(t.todo)],
                conn |-> [c EXCEPT !.sources = @ \cup
                            {[evm_contract_id |-> t.cid, processing_status |-> 0,
                              security_analysis_status |-> 0]}],
                ai |-> ai]
          [] OTHER ->
               [task |-> [t EXCEPT !.todo = Tail(t.todo)],
                conn |-> batch_update_tx_status(c, {i}, 2),
                ai |-> ai]

\* the creation-transaction table after the writes c committed
tx_table_after(c) ==
    [i \in DOMAIN evm_tx |->
        IF \E p \in c.status : p[1] = i
        THEN [evm_tx[i] EXCEPT !.processing_status =
                 (CHOOSE p \in c.status : p[1] = i)[2]]
        ELSE evm_tx[i]]

\* the rows the transactions of the other instances' connections hold locked
tx_locked_by_others(w) ==
    UNION {{p[1] : p \in tx_conn[v].status} : v \in Procs \ {w}}

\* lock_and_get_unprocessed_txs on instance w, seen from the table tbl
lock_and_get_unprocessed_txs(w, tbl) ==
    select_for_update({i \in DOMAIN tbl : tbl[i].processing_status = 0},
                      tx_locked_by_others(w), TxBatchSize)

\* COMMIT (and the implicit commit of BEGIN) on w's connection
tx_conn_commit(w) ==
    /\ evm_tx' = tx_table_after(tx_conn[w])
    /\ evm_contract' = evm_contract \cup tx_conn[w].contracts
    /\ evm_contract_source' = evm_contract_source \cup tx_conn[w].sources

\* the unfinished tasks of w's run, as they go on after the run ended
unfinished_tasks(w, ids) ==
    {[tx |-> i, todo |-> tx_w[w].tasks[i].todo, cid |-> tx_w[w].tasks[i].cid] :
        i \in {j \in ids : tx_w[w].tasks[j].todo # <<>>}}

\* INSERT INTO evm_contract (no IGNORE) for row i on a connection with the
\* writes c meets a row with the same (chain_id, contract_address): under a
\* unique key the statement raises, without one it inserts a second row
insert_meets_duplicate(todo, i, c) ==
    /\ todo # <<>> /\ Head(todo) = "insert_contract"
    /\ \E r \in evm_contract \cup c.contracts :
          r.contract_address = contract_address_of(evm_tx[i].transaction_hash)

\* the run of instance w ended by the except branch: ROLLBACK, the connection
\* goes back to the pool, and the tasks other than i that gather left running
\* go on as orphans
tx_run_failed(w, i) ==
    /\ tx_conn' = [tx_conn EXCEPT ![w] = no_writes]
    /\ tx_orphans' = [tx_orphans EXCEPT ![w] =
                         @ \cup unfinished_tasks(w, tx_w[w].lease \ {i})]
    /\ tx_w' = [tx_w EXCEPT ![w] =
          [tx_idle EXCEPT !.done = tx_w[w].done, !.runs = tx_w[w].runs,
              !.failure = IF insert_meets_duplicate(tx_w[w].tasks[i].todo, i, tx_conn[w])
                          THEN "duplicate" ELSE "raise"]]
    /\ UNCHANGED <<evm_tx, evm_contract, evm_contract_source, contract_ai>>

\* EvmTransactionScanner.run up to gather: BEGIN (which commits what the
\* connection still holds), select and lock the batch, set it to
\* processing_status = 1, create one task per row.  The pool hands the scanner
\* the connection it released last.
tx_lock(w) ==
    /\ w \in procs
    /\ tx_w[w].pc = "idle"
    /\ tx_w[w].runs < MaxTxRuns
    /\ tx_conn_commit(w)
    /\ \E sel \in lock_and_get_unprocessed_txs(w, tx_table_after(tx_conn[w])) :
          IF sel = {}
          THEN /\ tx_conn' = [tx_conn EXCEPT ![w] = no_writes]
               /\ tx_w' = [tx_w EXCEPT ![w].runs = @ + 1]
          ELSE /\ tx_conn' = [tx_conn EXCEPT ![w] =
                                 batch_update_tx_status(no_writes, sel, 1)]
               /\ tx_w' = [tx_w EXCEPT ![w].pc = "gather", ![w].lease = sel,
                              ![w].tasks = [i \in sel |-> new_task],
                              ![w].runs = @ + 1]
    /\ UNCHANGED <<util_vars, api_vars, src_vars, procs, chain_head, net_vars, evm_block, blk_w, contract_ai, tx_orphans, date_vars>>

\* _process_transaction of a live task: the provider calls return
tx_provider_answers(w) ==
    /\ w \in procs
    /\ tx_w[w].pc = "gather"
    /\ \E i \in tx_w[w].lease :
          /\ tx_w[w].tasks[i].todo = <<"api">>
          /\ tx_w' = [tx_w EXCEPT ![w].tasks[i].todo =
                         tx_statements(receipt_of(evm_tx[i].transaction_hash))]
    /\ UNCHANGED <<util_vars, api_vars, src_vars, procs, chain_head, net_vars, date_vars, evm_tx, blk_w, evm_contract,
                   evm_contract_source, contract_ai, tx_orphans, tx_conn>>

\* _process_transaction of a live task raises: a provider call fails, the
\* SourceCode is malformed, or the INSERT hits a unique key; gather passes the
\* exception on to run
tx_task_raises(w) ==
    /\ w \in procs
    /\ tx_w[w].pc = "gather"
    /\ \E i \in tx_w[w].lease :
          /\ \/ tx_w[w].tasks[i].todo \in {<<"api">>, <<"raise">>}
             \/ insert_meets_duplicate(tx_w[w].tasks[i].todo, i, tx_conn[w])
          /\ tx_run_failed(w, i)
    /\ UNCHANGED <<util_vars, api_vars, src_vars, procs, chain_head, net_vars, blk_w, date_vars>>

\* _process_transaction of a live task executes its next statement
tx_task_executes(w) ==
    /\ w \in procs
    /\ tx_w[w].pc = "gather"
    /\ \E i \in tx_w[w].lease :
          /\ tx_w[w].tasks[i].todo \notin {<<>>, <<"api">>, <<"raise">>}
          /\ LET r == execute(tx_w[w].tasks[i], i, tx_conn[w], contract_ai)
             IN  /\ tx_w' = [tx_w EXCEPT ![w].tasks[i] = r.task]
                 /\ tx_conn' = [tx_conn EXCEPT ![w] = r.conn]
                 /\ contract_ai' = r.ai
    /\ UNCHANGED <<util_vars, api_vars, src_vars, procs, chain_head, net_vars, date_vars, evm_tx, blk_w, evm_contract,
                   evm_contract_source, tx_orphans>>

\* EvmTransactionScanner.run after gather returned: COMMIT, or the except
\* branch if the commit fails
tx_commit(w) ==
    /\ w \in procs
    /\ tx_w[w].pc = "gather"
    /\ \A i \in tx_w[w].lease : tx_w[w].tasks[i].todo = <<>>
    /\ \/ /\ tx_conn_commit(w)
          /\ tx_conn' = [tx_conn EXCEPT ![w] = no_writes]
          /\ tx_w' = [tx_w EXCEPT ![w] =
                [tx_idle EXCEPT !.done = tx_w[w].done \cup tx_w[w].lease,
                                !.runs = tx_w[w].runs,
                                !.failure = tx_w[w].failure]]
          /\ UNCHANGED <<contract_ai, tx_orphans>>
       \/ /\ \E i \in tx_w[w].lease : tx_run_failed(w, i)
    /\ UNCHANGED <<util_vars, api_vars, src_vars, procs, chain_head, net_vars, blk_w, date_vars>>

\* a task a failed run left behind goes on: its provider calls return or
\* raise (nobody retrieves the exception), or it executes its next statement
\* on the connection it was given, wherever that connection is by now
tx_orphan_step(w) ==
    /\ w \in procs
    /\ \E o \in tx_orphans[w] :
          /\ \/ /\ o.todo = <<"api">>
                /\ tx_orphans' = [tx_orphans EXCEPT ![w] = (@ \ {o}) \cup
                      {[o EXCEPT !.todo = tx_statements(receipt_of(evm_tx[o.tx].transaction_hash))]}]
                /\ UNCHANGED <<tx_conn, contract_ai>>
             \/ /\ \/ o.todo \in {<<"api">>, <<"raise">>}
                   \/ insert_meets_duplicate(o.todo, o.tx, tx_conn[w])
                /\ tx_orphans' = [tx_orphans EXCEPT ![w] = @ \ {o}]
                /\ UNCHANGED <<tx_conn, contract_ai>>
             \/ /\ o.todo \notin {<<"api">>, <<"raise">>}
                /\ Head(o.todo) = "status2" => o.tx \notin tx_locked_by_others(w)
                /\ LET r == execute([todo |-> o.todo, cid |-> o.cid], o.tx,
                                    tx_conn[w], contract_ai)
                   IN  /\ tx_orphans' = [tx_orphans EXCEPT ![w] = (@ \ {o}) \cup
                              (IF r.task.todo = <<>> THEN {}
                               ELSE {[tx |-> o.tx, todo |-> r.task.todo, cid |-> r.task.cid]})]
                       /\ tx_conn' = [tx_conn EXCEPT ![w] = r.conn]
                       /\ contract_ai' = r.ai
    /\ UNCHANGED <<util_vars, api_vars, src_vars, procs, chain_head, net_vars, date_vars, evm_tx, blk_w, evm_contract,
                   evm_contract_source, tx_w>>

\* another scanner of the instance acquires the connection the TxScanner
\* released and begins its transaction: BEGIN commits what the connection holds
conn_begin_other(w) ==
    /\ w \in procs
    /\ tx_w[w].pc = "idle"
    /\ tx_conn[w] # no_writes
    /\ tx_conn_commit(w)
    /\ tx_conn' = [tx_conn EXCEPT ![w] = no_writes]
    /\ UNCHANGED <<util_vars, api_vars, src_vars, procs, chain_head, net_vars, blk_w, contract_ai, tx_w, tx_orphans, date_vars>>

\* the connection is closed with the writes still open (the pool closes at
\* shutdown): the server rolls them back
conn_closed(w) ==
    /\ w \in procs
    /\ tx_w[w].pc = "idle"
    /\ tx_conn[w] # no_writes
    /\ tx_conn' = [tx_conn EXCEPT ![w] = no_writes]
    /\ UNCHANGED <<util_vars, api_vars, src_vars, procs, chain_head, net_vars, date_vars, evm_tx, blk_w, evm_contract,
                   evm_contract_source, contract_ai, tx_w, tx_orphans>>

TxStep(w) ==
    \/ tx_lock(w)
    \/ tx_provider_answers(w)
    \/ tx_task_raises(w)
    \/ tx_task_executes(w)
    \/ tx_commit(w)
    \/ tx_orphan_step(w)
    \/ conn_begin_other(w)
    \/ conn_closed(w)

NextTx == \E w \in Procs : TxStep(w)

\* one instance after the BlockScanner completed blocks 1..NBlocks
InitTx ==
    /\ procs = {1}
    /\ chain_head = FinalityDepth + NBlocks
    /\ evm_network = [active_status |-> 1, processing_status |-> 0,
                      last_discovered_block_number |-> NBlocks]
    /\ evm_block = [i \in 1..NBlocks |-> [block_number |-> i, processing_status |-> 2,
                                           discovered_at |-> "completion"]]
    /\ evm_tx = batch_insert_contract_txs(<<>>,
                   all_contract_txs(SetToSeq(1..NBlocks), [i \in 1..NBlocks |-> "ok"]))
    /\ evm_contract = {}
    /\ evm_contract_source = {}
    /\ contract_ai = 0
    /\ evm_airdrop = <<>>
    /\ all_idle
    /\ src_facts = <<>>
    /\ api_parallel = FALSE
    /\ api_clock = 0
SpecTx == InitTx /\ [][NextTx]_vars

\* The TxScanner loop of run_scanners: run after run, for as long as the
\* process lives.  Of three pending rows each either has no contract address
\* in its receipt (its provider calls succeed and it needs no source) or has
\* a source that is malformed on every attempt.
FairHashes == <<{11, 12}, {23, 24}, {31, 32}>>

\* EvmTransactionScanner.run up to gather, as tx_lock, in a loop without end
tx_run_again(w) ==
    /\ w \in procs
    /\ tx_w[w].pc = "idle"
    /\ tx_conn_commit(w)
    /\ \E sel \in lock_and_get_unprocessed_txs(w, tx_table_after(tx_conn[w])) :
          IF sel = {}
          THEN /\ tx_conn' = [tx_conn EXCEPT ![w] = no_writes]
               /\ UNCHANGED tx_w
          ELSE /\ tx_conn' = [tx_conn EXCEPT ![w] =
                                 batch_update_tx_status(no_writes, sel, 1)]
               /\ tx_w' = [tx_w EXCEPT ![w].pc = "gather", ![w].lease = sel,
                              ![w].tasks = [i \in sel |-> new_task]]
    /\ UNCHANGED <<util_vars, api_vars, src_vars, procs, chain_head, net_vars, evm_block, blk_w, contract_ai, tx_orphans, date_vars>>

\* _process_transaction of a live task raises on the malformed source;
\* gather passes the exception on to run
tx_task_fails(w) ==
    /\ w \in procs
    /\ tx_w[w].pc = "gather"
    /\ \E i \in tx_w[w].lease :
          /\ tx_w[w].tasks[i].todo = <<"raise">>
          /\ tx_run_failed(w, i)
    /\ UNCHANGED <<util_vars, api_vars, src_vars, procs, chain_head, net_vars, blk_w, date_vars>>

\* EvmTransactionScanner.run after gather returned: COMMIT
tx_commit_batch(w) ==
    /\ w \in procs
    /\ tx_w[w].pc = "gather"
    /\ \A i \in tx_w[w].lease : tx_w[w].tasks[i].todo = <<>>
    /\ tx_conn_commit(w)
    /\ tx_conn' = [tx_conn EXCEPT ![w] = no_writes]
    /\ tx_w' = [tx_w EXCEPT ![w] =
          [tx_idle EXCEPT !.done = tx_w[w].done \cup tx_w[w].lease,
                          !.failure = tx_w[w].failure]]
    /\ UNCHANGED <<contract_ai, tx_orphans>>
    /\ UNCHANGED <<util_vars, api_vars, src_vars, procs, chain_head, net_vars, blk_w, date_vars>>

\* a task a failed run left behind gets its provider answer and executes
\* its statement on the connection it was given
tx_orphan_goes_on(w) ==
    /\ tx_orphan_step(w)
    /\ \A o \in tx_orphans[w] \ tx_orphans'[w] : o.todo # <<"api">> \/
          \E o2 \in tx_orphans'[w] : o2.tx = o.tx

InitTxFair ==
    /\ procs = {1}
    /\ chain_head = FinalityDepth + NBlocks
    /\ evm_network = [active_status |-> 1, processing_status |-> 0,
                      last_discovered_block_number |-> NBlocks]
    /\ evm_block = [i \in 1..NBlocks |-> [block_number |-> i, processing_status |-> 2,
                                           discovered_at |-> "completion"]]
    /\ \E hashes \in [1..Len(FairHashes) -> UNION {FairHashes[k] : k \in DOMAIN FairHashes}] :
          /\ \A k \in DOMAIN FairHashes : hashes[k] \in FairHashes[k]
          /\ evm_tx = [k \in DOMAIN FairHashes |->
                          [evm_block_id |-> hashes[k] \div 10, transaction_hash |-> hashes[k],
                           processing_status |-> 0]]
    /\ evm_contract = {}
    /\ evm_contract_source = {}
    /\ contract_ai = 0
    /\ evm_airdrop = <<>>
    /\ all_idle
    /\ src_facts = <<>>
    /\ api_parallel = FALSE
    /\ api_clock = 0

TxFairStep(w) ==
    \/ tx_run_again(w)
    \/ tx_provider_answers(w)
    \/ tx_task_fails(w)
    \/ tx_task_executes(w)
    \/ tx_commit_batch(w)
    \/ tx_orphan_goes_on(w)
    \/ conn_begin_other(w)

SpecTxFair ==
    /\ InitTxFair
    /\ [][\E w \in Procs : TxFairStep(w)]_vars
    /\ \A w \in Procs :
          /\ WF_vars(tx_run_again(w))
          /\ WF_vars(tx_provider_answers(w))
          /\ WF_vars(tx_task_fails(w))
          /\ WF_vars(tx_task_executes(w))
          /\ WF_vars(tx_commit_batch(w))
          /\ WF_vars(tx_orphan_goes_on(w))
          /\ WF_vars(conn_begin_other(w))


(***************************************************************************)
(* SourceScanner                                                           *)
(***************************************************************************)
\* the value of a JSON key: the JSON null, or the ABI of a function with the
\* given input types
json_null == [json |-> "null", inputs |-> <<>>]
function_abi(inputs) == [json |-> "object", inputs |-> inputs]

\* what the LLM, the metadata provider and the chain hold for a contract the
\* LLM calls an airdrop.  _validate_llm_response accepts every object that
\* has the key eligibility_function_abi, whatever its value.
AirdropCases ==
    {[eligibility_function_abi |-> function_abi(<<"address">>),
      claim_end_timestamp |-> Null, possible_spam |-> FALSE, onchain_code |-> "code"],
     [eligibility_function_abi |-> function_abi(<<"address">>),
      claim_end_timestamp |-> Now + 1, possible_spam |-> TRUE, onchain_code |-> "code"],
     [eligibility_function_abi |-> function_abi(<<"address">>),
      claim_end_timestamp |-> Now + 1, possible_spam |-> FALSE, onchain_code |-> "empty"],
     [eligibility_function_abi |-> json_null,
      claim_end_timestamp |-> Now - 1, possible_spam |-> FALSE, onchain_code |-> "code"],
     [eligibility_function_abi |-> function_abi(<<"address", "uint256">>),
      claim_end_timestamp |-> Now, possible_spam |-> FALSE, onchain_code |-> "code"]}

no_result == [eligibility_function_abi |-> json_null, claim_end_timestamp |-> Null,
              possible_spam |-> FALSE, onchain_code |-> "code"]

\* what _process_source meets for one source: the ABI filter misses; Slither
\* classifies the source 1, 2 or 3; the LLM answers nothing usable ({} or no
\* JSON); the LLM call raises; the LLM names an airdrop
SourceOutcomes ==
    {[kind |-> "abi_miss", security_status |-> 0, result |-> no_result]}
    \cup {[kind |-> "rejected", security_status |-> s, result |-> no_result] : s \in 1..3}
    \cup {[kind |-> "llm_empty", security_status |-> 4, result |-> no_result],
          [kind |-> "llm_raises", security_status |-> 5, result |-> no_result]}
    \cup {[kind |-> "airdrop", security_status |-> 5, result |-> r] : r \in AirdropCases}

\* the outcomes after which _process_source marks the source done and returns
terminal_kinds == {"abi_miss", "rejected", "llm_empty"}

\* (mutant) _process_source raising on the terminal outcomes
src_statements_terminal_raises(o) ==
    CASE o.kind = "abi_miss" -> <<"raise">>
      [] o.kind = "airdrop"  -> <<"save_report", "insert_airdrop", "status2">>
      [] OTHER               -> <<"save_report", "raise">>

\* the statements _process_source executes on the connection once the ABI
\* filter, Slither and the LLM answered
src_statements(o) ==
    CASE o.kind = "abi_miss"   -> <<"status2">>
      [] o.kind = "rejected"   -> <<"save_report", "status2">>
      [] o.kind = "llm_empty"  -> <<"save_report", "status2">>
      [] o.kind = "llm_raises" -> <<"save_report", "raise">>
      [] OTHER                 -> <<"save_report", "insert_airdrop", "status2">>

\* a source task that has not got its answers yet
new_src_task == [todo |-> <<"api">>, outcome |-> [kind |-> "none", security_status |-> 0,
                                                   result |-> no_result]]

\* UPDATE evm_contract_source SET processing_status = v WHERE id IN ids, on a
\* connection with the writes c
batch_update_source_processing_status(c, ids, v) ==
    [c EXCEPT !.status = {p \in c.status : p[1] \notin ids} \cup {<<i, v>> : i \in ids}]

\* UPDATE evm_contract_source SET security_analysis_status = v WHERE id = i
save_slither_report(c, i, v) ==
    [c EXCEPT !.security = {p \in c.security : p[1] # i} \cup {<<i, v>>}]

\* the active_status save_airdrop_contract computes for an LLM result
airdrop_active_status(r) ==
    IF r.possible_spam THEN 0
    ELSE IF r.claim_end_timestamp # Null /\ r.claim_end_timestamp # 0
            /\ r.claim_end_timestamp < Now
         THEN 0 ELSE 1

\* the row save_airdrop_contract inserts for source i; onchain_code is no
\* column: it records what eth_getCode would answer for the contract
airdrop_row(i, r) ==
    [evm_contract_source_id |-> i,
     eligibility_function_abi |-> r.eligibility_function_abi,
     claim_end_timestamp |-> r.claim_end_timestamp,
     active_status |-> airdrop_active_status(r),
     onchain_code |-> r.onchain_code]

\* the next statement of task t for source i on a connection with the writes c
src_execute(t, i, c) ==
    LET st == Head(t.todo)
        rest == [t EXCEPT !.todo = Tail(t.todo)]
    IN  CASE st = "save_report" ->
               [task |-> rest, conn |-> save_slither_report(c, i, t.outcome.security_status)]
          [] st = "insert_airdrop" ->
               [task |-> rest,
                conn |-> [c EXCEPT !.airdrops = Append(@, airdrop_row(i, t.outcome.result))]]
          [] OTHER ->
               [task |-> rest, conn |-> batch_update_source_processing_status(c, {i}, 2)]

\* the evm_contract_source table after the writes c committed
src_table_after(c) ==
    {[r EXCEPT !.processing_status =
                   IF \E p \in c.status : p[1] = r.evm_contract_id
                   THEN (CHOOSE p \in c.status : p[1] = r.evm_contract_id)[2] ELSE @,
               !.security_analysis_status =
                   IF \E p \in c.security : p[1] = r.evm_contract_id
                   THEN (CHOOSE p \in c.security : p[1] = r.evm_contract_id)[2] ELSE @] :
        r \in evm_contract_source}

\* the rows the transactions of the other instances' connections hold locked
src_locked_by_others(w) ==
    UNION {{p[1] : p \in src_conn[v].status \cup src_conn[v].security} : v \in Procs \ {w}}

\* lock_and_get_unprocessed_sources on instance w, seen from the table tbl
lock_and_get_unprocessed_sources(w, tbl) ==
    select_for_update({r.evm_contract_id : r \in {x \in tbl :
                           x.processing_status = 0 /\ x.security_analysis_status = 0}},
                      src_locked_by_others(w), SrcBatchSize)

\* COMMIT (and the implicit commit of BEGIN) on w's connection
src_conn_commit(w) ==
    /\ evm_contract_source' = src_table_after(src_conn[w])
    /\ evm_airdrop' = evm_airdrop \o src_conn[w].airdrops

\* the unfinished tasks of w's run, as they go on after the run ended
unfinished_src_tasks(w, ids) ==
    {[src |-> i, todo |-> src_w[w].tasks[i].todo, outcome |-> src_w[w].tasks[i].outcome] :
        i \in {j \in ids : src_w[w].tasks[j].todo # <<>>}}

\* the run of instance w ended by the except branch: ROLLBACK, the connection
\* goes back to the pool, and the tasks other than i that gather left running
\* go on as orphans
src_run_failed(w, i) ==
    /\ src_conn' = [src_conn EXCEPT ![w] = src_no_writes]
    /\ src_orphans' = [src_orphans EXCEPT ![w] =
                          @ \cup unfinished_src_tasks(w, src_w[w].lease \ {i})]
    /\ src_w' = [src_w EXCEPT ![w] =
          [src_idle EXCEPT !.runs = src_w[w].runs,
                           !.failed_by = src_w[w].tasks[i].outcome.kind]]
    /\ UNCHANGED <<evm_contract_source, evm_airdrop>>

\* EvmContractSourceScanner.run up to gather: BEGIN (which commits what the
\* connection still holds), select and lock the batch, set it to
\* processing_status = 1, create one task per source.  The pool hands the
\* scanner the connection it released last.
src_lock(w) ==
    /\ w \in procs
    /\ src_w[w].pc = "idle"
    /\ src_w[w].runs < MaxSrcRuns
    /\ src_conn_commit(w)
    /\ \E sel \in lock_and_get_unprocessed_sources(w, src_table_after(src_conn[w])) :
          IF sel = {}
          THEN /\ src_conn' = [src_conn EXCEPT ![w] = src_no_writes]
               /\ src_w' = [src_w EXCEPT ![w].runs = @ + 1, ![w].failed_by = "none"]
          ELSE /\ src_conn' = [src_conn EXCEPT ![w] =
                                  batch_update_source_processing_status(src_no_writes, sel, 1)]
               /\ src_w' = [src_w EXCEPT ![w].pc = "gather", ![w].lease = sel,
                               ![w].tasks = [i \in sel |-> new_src_task],
                               ![w].runs = @ + 1, ![w].failed_by = "none"]
    /\ UNCHANGED <<util_vars, api_vars, procs, chain_head, net_vars, blk_vars, evm_contract, contract_ai,
                   tx_w, tx_orphans, tx_conn, date_w, src_orphans, src_facts>>

\* _process_source of a live task: the ABI filter, Slither and the LLM answer
src_answers(w) ==
    /\ w \in procs
    /\ src_w[w].pc = "gather"
    /\ \E i \in src_w[w].lease :
          /\ src_w[w].tasks[i].todo = <<"api">>
          /\ src_w' = [src_w EXCEPT ![w].tasks[i] =
                          [todo |-> src_statements(src_facts[i]), outcome |-> src_facts[i]]]
    /\ UNCHANGED <<util_vars, api_vars, procs, chain_head, net_vars, blk_vars, tx_vars, date_vars,
                   src_orphans, src_conn, src_facts>>

\* _process_source of a live task raises: a call to Slither, the LLM or a
\* provider fails now (it may answer in a later run), or the LLM call of
\* this source always fails; gather passes the exception on to run
src_task_raises(w) ==
    /\ w \in procs
    /\ src_w[w].pc = "gather"
    /\ \E i \in src_w[w].lease :
          /\ src_w[w].tasks[i].todo \in {<<"api">>, <<"raise">>}
          /\ src_run_failed(w, i)
    /\ UNCHANGED <<util_vars, api_vars, procs, chain_head, net_vars, blk_vars, tx_vars, date_w, src_facts>>

\* _process_source of a live task executes its next statement
src_task_executes(w) ==
    /\ w \in procs
    /\ src_w[w].pc = "gather"
    /\ \E i \in src_w[w].lease :
          /\ src_w[w].tasks[i].todo \notin {<<>>, <<"api">>, <<"raise">>}
          /\ LET r == src_execute(src_w[w].tasks[i], i, src_conn[w])
             IN  /\ src_w' = [src_w EXCEPT ![w].tasks[i] = r.task]
                 /\ src_conn' = [src_conn EXCEPT ![w] = r.conn]
    /\ UNCHANGED <<util_vars, api_vars, procs, chain_head, net_vars, blk_vars, tx_vars, date_vars, src_orphans,
                   src_facts>>

\* EvmContractSourceScanner.run after gather returned: COMMIT
src_commit(w) ==
    /\ w \in procs
    /\ src_w[w].pc = "gather"
    /\ \A i \in src_w[w].lease : src_w[w].tasks[i].todo = <<>>
    /\ src_conn_commit(w)
    /\ src_conn' = [src_conn EXCEPT ![w] = src_no_writes]
    /\ src_w' = [src_w EXCEPT ![w] = [src_idle EXCEPT !.runs = src_w[w].runs]]
    /\ UNCHANGED <<util_vars, api_vars, procs, chain_head, net_vars, blk_vars, evm_contract, contract_ai,
                   tx_w, tx_orphans, tx_conn, date_w, src_orphans, src_facts>>

\* a task a failed run left behind goes on: it gets its answers, raises
\* (nobody retrieves the exception), or executes its next statement on the
\* connection it was given, wherever that connection is by now
src_orphan_step(w) ==
    /\ w \in procs
    /\ \E o \in src_orphans[w] :
          \/ /\ o.todo = <<"api">>
             /\ src_orphans' = [src_orphans EXCEPT ![w] = (@ \ {o}) \cup
                   {[src |-> o.src, todo |-> src_statements(src_facts[o.src]),
                     outcome |-> src_facts[o.src]]}]
             /\ UNCHANGED src_conn
          \/ /\ o.todo \in {<<"api">>, <<"raise">>}
             /\ src_orphans' = [src_orphans EXCEPT ![w] = @ \ {o}]
             /\ UNCHANGED src_conn
          \/ /\ o.todo \notin {<<"api">>, <<"raise">>}
             /\ o.src \notin src_locked_by_others(w)
             /\ LET r == src_execute([todo |-> o.todo, outcome |-> o.outcome], o.src,
                                     src_conn[w])
                IN  /\ src_orphans' = [src_orphans EXCEPT ![w] = (@ \ {o}) \cup
                           (IF r.task.todo = <<>> THEN {}
                            ELSE {[src |-> o.src, todo |-> r.task.todo,
                                   outcome |-> o.outcome]})]
                    /\ src_conn' = [src_conn EXCEPT ![w] = r.conn]
    /\ UNCHANGED <<util_vars, api_vars, procs, chain_head, net_vars, blk_vars, tx_vars, date_vars, src_w,
                   src_facts>>

SrcStep(w) ==
    \/ src_lock(w)
    \/ src_answers(w)
    \/ src_task_raises(w)
    \/ src_task_executes(w)
    \/ src_commit(w)
    \/ src_orphan_step(w)

NextSrc == \E w \in Procs : SrcStep(w)

\* one instance after the TxScanner saved NSources verified contracts
InitSrc ==
    /\ procs = {1}
    /\ chain_head = FinalityDepth
    /\ evm_network = [active_status |-> 1, processing_status |-> 0,
                      last_discovered_block_number |-> Null]
    /\ evm_block = <<>>
    /\ evm_tx = <<>>
    /\ evm_contract = {[id |-> i, evm_tx_id |-> i, verified |-> TRUE,
                        contract_address |-> i] : i \in 1..NSources}
    /\ evm_contract_source = {[evm_contract_id |-> i, processing_status |-> 0,
                               security_analysis_status |-> 0] : i \in 1..NSources}
    /\ contract_ai = NSources
    /\ evm_airdrop = <<>>
    /\ all_idle
    /\ src_facts \in [1..NSources -> SourceOutcomes]
    /\ api_parallel = FALSE
    /\ api_clock = 0
SpecSrc == InitSrc /\ [][NextSrc]_vars

(***************************************************************************)
(* The batch connection under the tasks of one run                         *)
(***************************************************************************)
\* the awaits of _process_transaction in order: the provider calls, then the
\* statements on the run's connection
tx_steps(kind) ==
    (IF kind = "no_address" THEN <<"get_transaction_receipt">>
     ELSE <<"get_transaction_receipt", "get_contract_source">>) \o tx_statements(kind)

\* the awaits of _process_source in order: check_abi is no await, the Slither
\* report is saved before the LLM is asked, the airdrop is saved last
src_steps(kind) ==
    CASE kind = "abi_miss"   -> <<"status2">>
      [] kind = "rejected"   -> <<"analyze_source_code", "save_report", "status2">>
      [] kind = "llm_empty"  -> <<"analyze_source_code", "save_report", "analyze_contract",
                                  "status2">>
      [] kind = "llm_raises" -> <<"analyze_source_code", "save_report", "analyze_contract",
                                  "raise">>
      [] OTHER               -> <<"analyze_source_code", "save_report", "analyze_contract",
                                  "get_token_metadata", "insert_airdrop", "status2">>

\* the steps that are statements on the connection (cursor.execute)
Statements == {"insert_contract", "insert_source", "status2", "save_report", "insert_airdrop"}

\* the outcomes of a row of either scanner
TxKinds == {"verified", "unverified", "no_address", "malformed"}
SrcKinds == {"abi_miss", "rejected", "llm_empty", "llm_raises", "airdrop"}

\* a task runs from one await to the next: with nothing left it is done, at
\* a raise it ends with the exception, otherwise its next step is under way
task_runs_on(steps) ==
    [steps |-> steps,
     at |-> IF steps = <<>> THEN "done"
            ELSE IF Head(steps) = "raise" THEN "raised" ELSE "in_flight"]

\* the tasks of the run that have a statement under way on the connection
statements_in_flight ==
    {k \in DOMAIN batch_conn.tasks :
        /\ batch_conn.tasks[k].at = "in_flight"
        /\ Head(batch_conn.tasks[k].steps) \in Statements}

\* the tasks of the run that wait for a provider, Slither or the LLM
calls_in_flight ==
    {k \in DOMAIN batch_conn.tasks :
        /\ batch_conn.tasks[k].at = "in_flight"
        /\ Head(batch_conn.tasks[k].steps) \notin Statements}

\* the event loop starts the tasks gather created, in order; each runs to
\* its first await
batch_task_starts(k) ==
    /\ k \in DOMAIN batch_conn.tasks
    /\ batch_conn.tasks[k].at = "new"
    /\ \A j \in 1..(k - 1) : batch_conn.tasks[j].at # "new"
    /\ batch_conn' = [batch_conn EXCEPT !.tasks[k] = task_runs_on(@.steps)]
    /\ UNCHANGED <<prep, stage, pool, api_vars, src_vars, procs, chain_head, net_vars, blk_vars, tx_vars, date_vars>>

\* the await of task k returns (ok) or raises, and the task runs on to its
\* next await; nothing makes it wait for the statement of another task
batch_task_resumes(k, ok) ==
    /\ k \in DOMAIN batch_conn.tasks
    /\ batch_conn.tasks[k].at = "in_flight"
    /\ batch_conn' = [batch_conn EXCEPT !.tasks[k] =
                         IF ok THEN task_runs_on(Tail(@.steps))
                         ELSE [@ EXCEPT !.at = "raised"]]
    /\ UNCHANGED <<prep, stage, pool, api_vars, src_vars, procs, chain_head, net_vars, blk_vars, tx_vars, date_vars>>

\* gather returns to run: COMMIT when every task is done, ROLLBACK as soon as
\* a task raised
batch_run_ends ==
    /\ batch_conn.pc = "gather"
    /\ \/ /\ \A k \in DOMAIN batch_conn.tasks : batch_conn.tasks[k].at = "done"
          /\ batch_conn' = [batch_conn EXCEPT !.pc = "committed"]
       \/ /\ \E k \in DOMAIN batch_conn.tasks : batch_conn.tasks[k].at = "raised"
          /\ batch_conn' = [batch_conn EXCEPT !.pc = "rolled_back"]
    /\ UNCHANGED <<prep, stage, pool, api_vars, src_vars, procs, chain_head, net_vars, blk_vars, tx_vars, date_vars>>

NextBatch ==
    \/ \E k \in 1..NBatchTasks : batch_task_starts(k)
    \/ \E k \in 1..NBatchTasks, ok \in BOOLEAN : batch_task_resumes(k, ok)
    \/ batch_run_ends

\* a run of the TxScanner or of the SourceScanner at gather: the batch is
\* locked and set to processing_status = 1, one task per row is created
InitBatch ==
    /\ procs = {1}
    /\ chain_head = FinalityDepth
    /\ evm_network = [active_status |-> 1, processing_status |-> 0,
                      last_discovered_block_number |-> Null]
    /\ evm_block = <<>>
    /\ evm_tx = <<>>
    /\ evm_contract = {}
    /\ evm_contract_source = {}
    /\ contract_ai = 0
    /\ evm_airdrop = <<>>
    /\ net_w = [w \in Procs |-> net_idle]
    /\ blk_w = [w \in Procs |-> blk_idle]
    /\ tx_w = [w \in Procs |-> tx_idle]
    /\ tx_orphans = [w \in Procs |-> {}]
    /\ tx_conn = [w \in Procs |-> no_writes]
    /\ date_w = [w \in Procs |-> date_idle]
    /\ src_w = [w \in Procs |-> src_idle]
    /\ src_orphans = [w \in Procs |-> {}]
    /\ src_conn = [w \in Procs |-> src_no_writes]
    /\ api_lock = [l \in ApiLocks |-> no_call]
    /\ api_pc = [c \in ApiCalls |-> "idle"]
    /\ api_last = [client \in ApiClients |-> 0]
    /\ api_stamp = [c \in ApiCalls |-> 0]
    /\ api_started = [client \in ApiClients |-> Null]
    /\ src_facts = <<>>
    /\ api_parallel = FALSE
    /\ api_clock = 0
    /\ prep = prep_idle
    /\ stage = stage_idle
    /\ pool = pool_idle
    /\ \E scanner \in {"tx", "source"} :
          \E kinds \in [1..NBatchTasks -> IF scanner = "tx" THEN TxKinds ELSE SrcKinds] :
              batch_conn = [scanner |-> scanner, pc |-> "gather",
                            tasks |-> [k \in 1..NBatchTasks |->
                                [steps |-> IF scanner = "tx" THEN tx_steps(kinds[k])
                                           ELSE src_steps(kinds[k]),
                                 at |-> "new"]]]
SpecBatch == InitBatch /\ [][NextBatch]_vars

(***************************************************************************)
(* DateScanner                                                             *)
(***************************************************************************)
\* the steps of EvmContractDateScanner.run, in order
next_step(step) ==
    CASE step = "expire"    -> "code"
      [] step = "code"      -> "claim_end"
      [] step = "claim_end" -> "claim_start"
      [] OTHER              -> "expire"

\* the rows the open transactions of the other instances' DateScanners hold
date_locked_by_others(w) == UNION {date_w[v].locked : v \in Procs \ {w}}

\* deactivate_expired_contracts: UPDATE ... SET active_status = 0 WHERE
\* active_status = 1 AND claim_end_timestamp IS NOT NULL AND
\* claim_end_timestamp <= CURRENT_TIMESTAMP
expired_contracts(table) ==
    {i \in DOMAIN table : /\ table[i].active_status = 1
                          /\ table[i].claim_end_timestamp # Null
                          /\ table[i].claim_end_timestamp <= Now}

\* get_contracts_for_code_check: what it may return to instance w
get_contracts_for_code_check(w) ==
    select_for_update({i \in DOMAIN evm_airdrop :
                          /\ evm_airdrop[i].active_status = 1
                          /\ evm_airdrop[i].claim_end_timestamp = Null},
                      date_locked_by_others(w), DateBatchSize)

\* What eth_getCode returns, as a sequence of characters: None (the provider
\* answered without a result), "0x", "0x0", "0x00", deployed code and a
\* string that is no hex number; CodeRaised stands for a call that raised
CodeNone == <<"None">>
CodeRaised == <<"Exception">>
EmptyCodes == {<<"0", "x">>, <<"0", "x", "0">>, <<"0", "x", "0", "0">>}
DeployedCode == <<"0", "x", "6", "0", "8", "0">>
NoHexCode == <<"0", "x", "z">>
CodeResults == EmptyCodes \cup {CodeNone, CodeRaised, DeployedCode, NoHexCode}

\* the hex digits in order, and the value of a hex digit
HexDigits == <<"0", "1", "2", "3", "4", "5", "6", "7", "8", "9", "a", "b", "c", "d", "e", "f">>
hex_digit == [c \in {HexDigits[k] : k \in 1..16} |->
                 (CHOOSE k \in 1..16 : HexDigits[k] = c) - 1]

RECURSIVE hex_int(_, _)
\* int(s, 16) of the digits s after the 0x prefix, from the value acc;
\* ValueError (Null) on a character that is no hex digit
hex_int(acc, s) ==
    IF s = <<>> THEN acc
    ELSE IF Head(s) \notin DOMAIN hex_digit THEN Null
    ELSE hex_int(16 * acc + hex_digit[Head(s)], Tail(s))

RECURSIVE hex_digits(_)
\* the digits of n > 0 in base 16, most significant first
hex_digits(n) ==
    IF n = 0 THEN <<>> ELSE Append(hex_digits(n \div 16), HexDigits[(n % 16) + 1])

\* the quantity n as a JSON-RPC node encodes it: "0x0" for 0
hex(n) == <<"0", "x">> \o (IF n = 0 THEN <<"0">> ELSE hex_digits(n))

\* int(s, 16) of a string with the prefix 0x: ValueError (Null) without a
\* digit after the prefix or with a character that is no hex digit
int_16(s) == IF Len(s) <= 2 THEN Null ELSE hex_int(0, SubSeq(s, 3, Len(s)))

\* is_code_empty: False for None, True for "0x", otherwise whether
\* int(code_result, 16) is 0 (False when it raises ValueError)
is_code_empty(code_result) ==
    IF code_result = CodeNone THEN FALSE
    ELSE IF code_result = <<"0", "x">> THEN TRUE
    ELSE hex_int(0, SubSeq(code_result, 3, Len(code_result))) = 0

\* what eth_getCode may give for row i: for a row whose on-chain code is
\* known the provider's answer for that code, otherwise anything
eth_getCode(i) ==
    IF "onchain_code" \notin DOMAIN evm_airdrop[i] THEN CodeResults
    ELSE IF evm_airdrop[i].onchain_code = "empty" THEN EmptyCodes
    ELSE {DeployedCode}

\* deactivate_contract_batch
deactivate_contract_batch(table, contract_ids) ==
    [i \in DOMAIN table |->
        IF i \in contract_ids THEN [table[i] EXCEPT !.active_status = 0] ELSE table[i]]

\* (mutant) a connection that stays in its transaction when the fan-out starts
connection_kept(txn) == txn

\* conn.close(): the connection is gone and with it its transaction
connection_closed(txn) == FALSE

\* step 1 of run: deactivate_expired_contracts in a transaction of its own;
\* a failure is logged and the run goes on
date_expire(w) ==
    /\ w \in procs
    /\ date_w[w].pc = "idle" /\ date_w[w].step = "expire"
    /\ \E dbfail \in BOOLEAN :
          /\ ~dbfail => expired_contracts(evm_airdrop) \cap date_locked_by_others(w) = {}
          /\ evm_airdrop' = IF dbfail THEN evm_airdrop
                            ELSE deactivate_contract_batch(evm_airdrop,
                                                           expired_contracts(evm_airdrop))
    /\ date_w' = [date_w EXCEPT ![w].step = next_step(@), ![w].rejected = {}]
    /\ UNCHANGED <<util_vars, api_vars, src_vars, procs, chain_head, net_vars, blk_vars, tx_vars>>

\* _deactivate_destroyed_contracts up to the select: BEGIN, then the batch is
\* selected FOR UPDATE SKIP LOCKED; an empty batch commits and ends the step
date_select(w) ==
    /\ w \in procs
    /\ date_w[w].pc = "idle" /\ date_w[w].step = "code"
    /\ \E sel \in get_contracts_for_code_check(w) :
          date_w' = [date_w EXCEPT ![w] =
              IF sel = {} THEN [date_idle EXCEPT !.step = next_step("code")]
              ELSE [date_idle EXCEPT !.pc = "selected", !.step = "code", !.locked = sel,
                                     !.checking = sel, !.txn = TRUE]]
    /\ UNCHANGED <<util_vars, api_vars, src_vars, procs, chain_head, net_vars, blk_vars, tx_vars, evm_airdrop>>

\* conn.close() before the fan-out of either step: the transaction ends
\* without a commit, its row locks are gone and what it wrote is rolled back;
\* then gather starts the provider calls
date_close(w) ==
    /\ w \in procs
    /\ date_w[w].pc = "selected"
    /\ date_w' = [date_w EXCEPT ![w].pc = "fanout", ![w].locked = {},
                                ![w].txn = connection_closed(@)]
    /\ UNCHANGED <<util_vars, api_vars, src_vars, procs, chain_head, net_vars, blk_vars, tx_vars, evm_airdrop>>

\* the eth_getCode calls return (a call that raised is skipped) and the
\* contracts without code are deactivated in a transaction of their own,
\* which commits or fails (dbfail)
date_write_back_with(w, dbfail) ==
    /\ w \in procs
    /\ date_w[w].pc = "fanout" /\ date_w[w].step = "code"
    /\ \E results \in [date_w[w].checking -> CodeResults] :
          LET dead_contract_ids == {i \in date_w[w].checking :
                                      /\ results[i] # CodeRaised
                                      /\ is_code_empty(results[i])}
          IN  /\ \A i \in date_w[w].checking : results[i] \in eth_getCode(i)
              /\ dead_contract_ids \cap date_locked_by_others(w) = {}
              /\ evm_airdrop' = IF dbfail THEN evm_airdrop
                                ELSE deactivate_contract_batch(evm_airdrop, dead_contract_ids)
    /\ date_w' = [date_w EXCEPT ![w] = [date_idle EXCEPT !.step = next_step("code")]]
    /\ UNCHANGED <<util_vars, api_vars, src_vars, procs, chain_head, net_vars, blk_vars, tx_vars>>

date_write_back(w) == \E dbfail \in BOOLEAN : date_write_back_with(w, dbfail)

\* the column abi_key names, and the timestamp column of the check
getter_abi(row, check_type) ==
    IF check_type = "claim_end" THEN row.claim_end_getter_abi
    ELSE row.claim_start_getter_abi
claim_timestamp(row, check_type) ==
    IF check_type = "claim_end" THEN row.claim_end_timestamp
    ELSE row.claim_start_timestamp

\* a getter ABI column holds NULL ("null"), the ABI of a getter function
\* ("getter"), text that is no JSON ("not_json"), or JSON that is no function
\* with a name ("no_selector").  get_function_selector finds a selector for
\* the second only, json.loads raises on the third.
get_function_selector(abi) == IF abi = "getter" THEN "selector" ELSE "none"

\* get_contracts_for_claim_end_check and get_contracts_for_claim_start_check
get_contracts_for_claim_check(w, check_type) ==
    select_for_update({i \in DOMAIN evm_airdrop :
                          /\ evm_airdrop[i].active_status = 1
                          /\ claim_timestamp(evm_airdrop[i], check_type) = Null
                          /\ getter_abi(evm_airdrop[i], check_type) # "null"},
                      date_locked_by_others(w), DateBatchSize)

\* invalidate_claim_end_abi and invalidate_claim_start_abi on the rows ids
invalidate_claim_abi(table, ids, check_type) ==
    [i \in DOMAIN table |->
        IF i \notin ids THEN table[i]
        ELSE IF check_type = "claim_end"
             THEN [table[i] EXCEPT !.claim_end_getter_abi = "null"]
             ELSE [table[i] EXCEPT !.claim_start_getter_abi = "null"]]

\* What eth_call gives for a getter, as a sequence of characters: an
\* exception (CallRaised), no result, a result without the 0x prefix, "0x"
\* (a call to an address without code), text that is no hex number, and the
\* encodings of 0, of a past and a future date and of the numbers at and
\* above the limit.  The claim-start check does not compare with the clock.
CallRaised == <<"Exception">>
CallEmpty == <<>>
CallNoPrefix == <<"6", "0">>
CallNoData == <<"0", "x">>
CallNoHex == <<"0", "x", "z">>
CallResults(check_type) ==
    {CallRaised, CallEmpty, CallNoPrefix, CallNoData, CallNoHex, hex(0), hex(Now),
     hex(TimestampLimit), hex(TimestampLimit + 1)}
        \cup (IF check_type = "claim_end" THEN {hex(Now + 1)} ELSE {})

\* what eth_call may give for the getter of row i: an address without code
\* answers every call with "0x", which the provider client hands on as it is
\* or as None
eth_call(i, check_type) ==
    IF "onchain_code" \in DOMAIN evm_airdrop[i] /\ evm_airdrop[i].onchain_code = "empty"
    THEN {CallRaised, CallEmpty, CallNoData}
    ELSE CallResults(check_type)

\* the failures of _request that reach eth_call as EtherscanAPIError: an HTTP
\* status error, a network error or timeout (httpx.RequestError), and the
\* provider's status "0" answer (rate limit reached)
TransientErrors == {<<"HTTPStatusError">>, <<"RequestError">>, <<"TimeoutException">>,
                    <<"Max rate limit reached">>}

\* (mutant) an eth_call that lets the error of the provider out as exception
etherscan_eth_call_raising(answer) ==
    IF answer \in TransientErrors THEN CallRaised
    ELSE IF answer # CallRaised /\ Len(answer) > 2 /\ SubSeq(answer, 1, 2) = <<"0", "x">>
         THEN answer
    ELSE IF answer = CallRaised THEN CallRaised ELSE CallEmpty

\* EtherscanAPIClient.eth_call: the result when it is a string that starts
\* with 0x and is longer than that, None (CallEmpty) otherwise and when
\* _request raised EtherscanAPIError; any other exception gets out
etherscan_eth_call(answer) ==
    IF answer \in TransientErrors THEN CallEmpty
    ELSE IF answer # CallRaised /\ Len(answer) > 2 /\ SubSeq(answer, 1, 2) = <<"0", "x">>
         THEN answer
    ELSE IF answer = CallRaised THEN CallRaised ELSE CallEmpty

\* an answer that is a hex number above the limit
above_limit(result) ==
    /\ result # CallRaised
    /\ Len(result) > 2 /\ SubSeq(result, 1, 2) = <<"0", "x">>
    /\ int_16(result) # Null /\ int_16(result) > TimestampLimit

\* (mutant) a decoder that takes every number for a date
decode_any_number(result) ==
    IF result = CallEmpty \/ Len(result) < 2 \/ SubSeq(result, 1, 2) # <<"0", "x">>
    THEN Null
    ELSE int_16(result)

\* decode_timestamp_from_eth_call: None (Null) for no result, a result without
\* the prefix 0x, a ValueError of int(result, 16) and a number above the
\* limit; otherwise the number
decode_timestamp_from_eth_call(result) ==
    IF result = CallEmpty \/ Len(result) < 2 \/ SubSeq(result, 1, 2) # <<"0", "x">>
    THEN Null
    ELSE LET timestamp == int_16(result)
         IN  IF timestamp = Null THEN Null
             ELSE IF timestamp = 0 THEN 0
             ELSE IF timestamp > TimestampLimit THEN Null
             ELSE timestamp

\* update_claim_end_timestamp with the active_status run computes, and
\* update_claim_start_timestamp
update_claim_timestamp(row, check_type, timestamp) ==
    IF check_type = "claim_end"
    THEN [row EXCEPT !.claim_end_timestamp = timestamp,
                     !.active_status = IF timestamp <= Now THEN 0 ELSE 1]
    ELSE [row EXCEPT !.claim_start_timestamp = timestamp]

\* the write-back loop of _process_claim_timestamp_check over the results
claim_written_back(table, results, check_type) ==
    LET answered == {i \in DOMAIN results : results[i] # CallRaised}
        bad == {i \in answered : decode_timestamp_from_eth_call(results[i]) \in {Null, 0}}
        t2 == invalidate_claim_abi(table, bad, check_type)
    IN  [i \in DOMAIN table |->
            IF i \in answered \ bad
            THEN update_claim_timestamp(t2[i], check_type,
                                        decode_timestamp_from_eth_call(results[i]))
            ELSE t2[i]]

\* _process_claim_timestamp_check up to conn.close(): BEGIN, the batch is
\* selected FOR UPDATE SKIP LOCKED (an empty batch commits and ends the
\* step), and for every row either an eth_call is prepared or, without a
\* selector, invalidate_method is executed on this connection
claim_select(w) ==
    /\ w \in procs
    /\ date_w[w].pc = "idle" /\ date_w[w].step \in {"claim_end", "claim_start"}
    /\ \E sel \in get_contracts_for_claim_check(w, date_w[w].step) :
          LET contracts_map == {i \in sel :
                  get_function_selector(getter_abi(evm_airdrop[i], date_w[w].step))
                      = "selector"}
          IN  date_w' = [date_w EXCEPT ![w] =
                 IF sel = {} THEN [date_idle EXCEPT !.step = next_step(date_w[w].step)]
                 ELSE [date_idle EXCEPT !.pc = "selected", !.step = date_w[w].step,
                                        !.locked = sel, !.checking = contracts_map,
                                        !.invalid = sel \ contracts_map, !.txn = TRUE]]
    /\ UNCHANGED <<util_vars, api_vars, src_vars, procs, chain_head, net_vars, blk_vars, tx_vars, evm_airdrop>>

\* the eth_call calls return what EtherscanAPIClient.eth_call makes of the
\* provider's answers, and the results are written back in a transaction
\* of its own, which commits or fails (dbfail)
claim_write_back(w) ==
    /\ w \in procs
    /\ date_w[w].pc = "fanout" /\ date_w[w].step \in {"claim_end", "claim_start"}
    /\ \E answers \in [date_w[w].checking -> CallResults(date_w[w].step) \cup TransientErrors],
          dbfail \in BOOLEAN :
       LET results == [i \in date_w[w].checking |-> etherscan_eth_call(answers[i])]
       IN /\ \A i \in date_w[w].checking :
                answers[i] \in eth_call(i, date_w[w].step) \cup TransientErrors
          /\ {i \in date_w[w].checking : results[i] # CallRaised}
                 \cap date_locked_by_others(w) = {}
          /\ evm_airdrop' = IF dbfail THEN evm_airdrop
                            ELSE claim_written_back(evm_airdrop, results, date_w[w].step)
          /\ date_w' = [date_w EXCEPT ![w] =
                [date_idle EXCEPT !.step = next_step(date_w[w].step),
                                  !.rejected = IF dbfail THEN {}
                                               ELSE {i \in date_w[w].checking :
                                                        above_limit(results[i])},
                                  !.failed = IF dbfail THEN {}
                                             ELSE {i \in date_w[w].checking :
                                                      answers[i] \in TransientErrors}]]
    /\ UNCHANGED <<util_vars, api_vars, src_vars, procs, chain_head, net_vars, blk_vars, tx_vars>>

DateStep(w) ==
    \/ date_expire(w)
    \/ date_select(w)
    \/ date_close(w)
    \/ date_write_back(w)
    \/ claim_select(w)
    \/ claim_write_back(w)

NextDate == \E w \in Procs : DateStep(w)

\* the getter ABI columns of the airdrop row i as the SourceScanner stored them
stored_claim_end_getter_abi(i) ==
    CASE i % 3 = 1 -> "getter" [] i % 3 = 2 -> "not_json" [] OTHER -> "no_selector"
stored_claim_start_getter_abi(i) ==
    CASE i % 3 = 1 -> "no_selector" [] i % 3 = 2 -> "getter" [] OTHER -> "null"

\* two instances after the SourceScanner stored NAirdrops active airdrop
\* contracts whose claim start and end are unknown
InitDate ==
    /\ procs = Procs
    /\ chain_head = FinalityDepth
    /\ evm_network = [active_status |-> 1, processing_status |-> 0,
                      last_discovered_block_number |-> Null]
    /\ evm_block = <<>>
    /\ evm_tx = <<>>
    /\ evm_contract = {}
    /\ evm_contract_source = {}
    /\ contract_ai = 0
    /\ evm_airdrop = [i \in 1..NAirdrops |->
                         [active_status |-> 1, claim_end_timestamp |-> Null,
                          claim_start_timestamp |-> Null,
                          claim_end_getter_abi |-> stored_claim_end_getter_abi(i),
                          claim_start_getter_abi |-> stored_claim_start_getter_abi(i)]]
    /\ all_idle
    /\ src_facts = <<>>
    /\ api_parallel = FALSE
    /\ api_clock = 0
SpecDate == InitDate /\ [][NextDate]_vars

\* one instance and NAirdrops active airdrop contracts without a claim end,
\* each with code on chain or without (destroyed), each with a claim-end
\* getter or without one
InitDateCode ==
    /\ procs = {1}
    /\ chain_head = FinalityDepth
    /\ evm_network = [active_status |-> 1, processing_status |-> 0,
                      last_discovered_block_number |-> Null]
    /\ evm_block = <<>>
    /\ evm_tx = <<>>
    /\ evm_contract = {}
    /\ evm_contract_source = {}
    /\ contract_ai = 0
    /\ evm_airdrop \in [1..NAirdrops ->
                         [active_status : {1}, claim_end_timestamp : {Null},
                          claim_start_timestamp : {Null},
                          claim_end_getter_abi : {"null", "getter"},
                          claim_start_getter_abi : {"null"},
                          onchain_code : {"code", "empty"}]]
    /\ all_idle
    /\ src_facts = <<>>
    /\ api_parallel = FALSE
    /\ api_clock = 0

\* a step of a run whose code-check write-back transaction does not fail
DateStepCommits(w) ==
    \/ date_expire(w)
    \/ date_select(w)
    \/ date_close(w)
    \/ date_write_back_with(w, FALSE)
    \/ claim_select(w)
    \/ claim_write_back(w)

\* the scanner loop runs again and again, every provider call returns and
\* tells the truth about the code, and the transaction that deactivates the
\* contracts without code commits
SpecDateFair ==
    /\ InitDateCode
    /\ [][\E w \in Procs : DateStepCommits(w)]_vars
    /\ \A w \in Procs : WF_vars(DateStepCommits(w))


(***************************************************************************)
(* SourceScanner: the stages of _process_source                            *)
(***************************************************************************)
\* the impact a Slither detector reports; "None" is a detector without the key
Impacts == {"High", "Medium", "Low", "Informational", "None"}

\* the reports analyze_source_code returns: success, and results.detectors
\* (absent or empty: <<>>)
SlitherReports ==
    {<<[success |-> ok, detectors |-> d]>> :
        ok \in BOOLEAN, d \in UNION {[1..n -> Impacts] : n \in 0..MaxDetectors}}

\* (mutant) a classification that looks for Medium before High
classify_medium_first(slither_json) ==
    IF ~slither_json.success THEN 1
    ELSE IF slither_json.detectors = <<>> THEN 5
    ELSE LET impacts == {slither_json.detectors[k] : k \in DOMAIN slither_json.detectors}
         IN  IF "Medium" \in impacts THEN 2
             ELSE IF "High" \in impacts THEN 3
             ELSE IF "Low" \in impacts THEN 4
             ELSE 5

\* SlitherAnalyzer.classify_slither_report: the status of the pair it returns
classify_slither_report(slither_json) ==
    IF ~slither_json.success THEN 1
    ELSE IF slither_json.detectors = <<>> THEN 5
    ELSE LET impacts == {slither_json.detectors[k] : k \in DOMAIN slither_json.detectors}
         IN  IF "High" \in impacts THEN 3
             ELSE IF "Medium" \in impacts THEN 2
             ELSE IF "Low" \in impacts THEN 4
             ELSE 5

\* (mutant) the LLM asked whatever Slither found
llm_wanted_always(security_status) == TRUE

\* _process_source goes on to the LLM: security_status in [4, 5]
llm_wanted(security_status) == security_status \in {4, 5}

\* a value of claim_end_getter_abi in the LLM's JSON: null, an integer, or the
\* ABI object of a getter
json_none == [type |-> "null", int |-> 0]
json_int(n) == [type |-> "int", int |-> n]
json_object == [type |-> "object", int |-> 0]

\* what the LLM client answers: it raises, or returns a text that is empty,
\* no JSON, no JSON object, the object {}, or an object with some keys
llm_text(kind) ==
    [kind |-> kind, has_eligibility_function_abi |-> FALSE, token_address |-> "none",
     get_token_function_abi |-> "none", claim_end_getter_abi |-> json_none]
LlmObjects ==
    {[kind |-> "object", has_eligibility_function_abi |-> has, token_address |-> ta,
      get_token_function_abi |-> abi, claim_end_getter_abi |-> ce] :
        has \in BOOLEAN, ta \in {"none", "token"}, abi \in {"none", "getter", "broken"},
        ce \in {json_none, json_object} \cup {json_int(n) : n \in 0..(Now + 1)}}
LlmAnswers ==
    {<<llm_text(kind)>> : kind \in {"raises", "empty", "not_json", "not_object",
                                    "empty_object"}}
    \cup {<<o>> : o \in LlmObjects}

\* LLMAirdropAnalyzer._validate_llm_response: the answer is a JSON object that
\* is not empty and has the key eligibility_function_abi
validate_llm_response(answer) ==
    answer.kind = "object" /\ answer.has_eligibility_function_abi

\* _parse_llm_time_field: the timestamp of the pair it returns (Null for None)
parse_llm_time_field(value) == IF value.type = "int" THEN value.int ELSE Null

\* what get_token_metadata answers: it raises MoralisAPIError, returns None, or
\* the metadata with possible_spam true, false or absent
MetadataAnswers == {"raises", "None", "spam", "no_spam", "no_key"}

\* metadata_report["possible_spam"] is True
possible_spam(metadata) == metadata = "spam"

\* token_analysis_status of save_airdrop_contract
token_analysis_status(metadata) == IF possible_spam(metadata) THEN 2 ELSE 0

\* the columns of the row save_airdrop_contract inserts that depend on the
\* metadata and on the claim end
save_airdrop_contract(llm_result, token_metadata) ==
    LET end_ts == parse_llm_time_field(llm_result.claim_end_getter_abi)
    IN  <<[claim_end_timestamp |-> end_ts,
           token_analysis_status |-> token_analysis_status(token_metadata),
           active_status |-> airdrop_active_status(
               [possible_spam |-> possible_spam(token_metadata),
                claim_end_timestamp |-> end_ts])]>>

\* _process_source returns after marking the source done
stage_returns(st) == [st EXCEPT !.pc = "done", !.executed = Append(@, "status2")]

\* stage 1: the ABI keyword filter
stage_check_abi ==
    /\ stage.pc = "idle"
    /\ \E hit \in BOOLEAN :
          LET st == [stage EXCEPT !.calls = Append(@, "check_abi"), !.abi_hit = hit]
          IN  stage' = IF hit THEN [st EXCEPT !.pc = "slither"] ELSE stage_returns(st)
    /\ UNCHANGED <<prep, batch_conn, pool, api_vars, src_vars, procs, chain_head, net_vars,
                   blk_vars, tx_vars, date_vars>>

\* stage 2: Slither, classify_slither_report, save_slither_report
stage_slither ==
    /\ stage.pc = "slither"
    /\ \E report \in SlitherReports :
          LET status == classify_slither_report(report[1])
              st == [stage EXCEPT !.calls = Append(@, "slither"), !.report = report,
                                  !.security_status = status,
                                  !.executed = Append(@, "save_report")]
          IN  stage' = IF llm_wanted(status) THEN [st EXCEPT !.pc = "llm"]
                       ELSE stage_returns(st)
    /\ UNCHANGED <<prep, batch_conn, pool, api_vars, src_vars, procs, chain_head, net_vars,
                   blk_vars, tx_vars, date_vars>>

\* stage 3: the LLM; then the choice of stage 4 (no token address, a getter
\* ABI with a selector), stage 5 (a token address) or stage 6
stage_llm ==
    /\ stage.pc = "llm"
    /\ \E answer \in LlmAnswers :
          LET st == [stage EXCEPT !.calls = Append(@, "llm"), !.llm = answer]
              a == answer[1]
          IN  stage' =
                IF a.kind = "raises" THEN [st EXCEPT !.pc = "raised"]
                ELSE IF ~validate_llm_response(a) THEN stage_returns(st)
                ELSE IF a.token_address # "none"
                     THEN [st EXCEPT !.pc = "metadata", !.token_address = a.token_address]
                ELSE IF a.get_token_function_abi # "none"
                        /\ get_function_selector(a.get_token_function_abi) # "none"
                     THEN [st EXCEPT !.pc = "eth_call"]
                ELSE [st EXCEPT !.pc = "save"]
    /\ UNCHANGED <<prep, batch_conn, pool, api_vars, src_vars, procs, chain_head, net_vars,
                   blk_vars, tx_vars, date_vars>>

\* stage 4: eth_call of the token getter; the answer decodes to an address
\* or it does not
stage_eth_call ==
    /\ stage.pc = "eth_call"
    /\ \E found \in {"none", "token"} :
          stage' = [stage EXCEPT !.calls = Append(@, "eth_call"), !.token_address = found,
                                 !.pc = IF found = "none" THEN "save" ELSE "metadata"]
    /\ UNCHANGED <<prep, batch_conn, pool, api_vars, src_vars, procs, chain_head, net_vars,
                   blk_vars, tx_vars, date_vars>>

\* stage 5: the token metadata provider
stage_metadata ==
    /\ stage.pc = "metadata"
    /\ \E answer \in MetadataAnswers :
          stage' = [stage EXCEPT !.calls = Append(@, "get_token_metadata"),
                                 !.metadata = answer,
                                 !.pc = IF answer = "raises" THEN "raised" ELSE "save"]
    /\ UNCHANGED <<prep, batch_conn, pool, api_vars, src_vars, procs, chain_head, net_vars,
                   blk_vars, tx_vars, date_vars>>

\* stage 6: save_airdrop_contract
stage_save ==
    /\ stage.pc = "save"
    /\ stage' = [stage EXCEPT !.calls = Append(@, "save_airdrop_contract"),
                              !.row = save_airdrop_contract(stage.llm[1], stage.metadata),
                              !.executed = @ \o <<"insert_airdrop", "status2">>,
                              !.pc = "done"]
    /\ UNCHANGED <<prep, batch_conn, pool, api_vars, src_vars, procs, chain_head, net_vars,
                   blk_vars, tx_vars, date_vars>>

NextStage ==
    \/ stage_check_abi
    \/ stage_slither
    \/ stage_llm
    \/ stage_eth_call
    \/ stage_metadata
    \/ stage_save

\* one source handed to _process_source
InitStage == procs = {1} /\ InitTables
SpecStage == InitStage /\ [][NextStage]_vars


(***************************************************************************)
(* The DB pool                                                             *)
(***************************************************************************)
\* Pool.acquire: a connection is checked out when fewer than maxsize are
\* (a caller waits otherwise); used counts the connections checked out
pool_acquired(to) ==
    [pool EXCEPT !.used = @ + 1, !.pc[to.user] = to.pc]

\* Pool.release, called when an "async with pool.acquire()" block is left
pool_released(s) ==
    [pool EXCEPT !.used = @ - 1, !.pc[s] = "idle"]

\* (mutant) conn.close() as if it gave the connection back to the pool
conn_released(s, pc) ==
    [pool EXCEPT !.used = @ - 1, !.pc[s] = pc]

\* Connection.close(): the socket is closed; the pool is not told and goes
\* on counting the connection as checked out
conn_close(s, pc) ==
    [pool EXCEPT !.closed = @ + 1, !.pc[s] = pc]

\* a scanner step enters "async with (await pool).acquire() as conn": the
\* runs of the Network, Block, Tx and Source scanners, and
\* deactivate_expired_contracts of the DateScanner
scoped_acquire(s) ==
    /\ pool.pc[s] = "idle"
    /\ pool.used < PoolMaxSize
    /\ pool' = pool_acquired([user |-> s, pc |-> "scoped"])
    /\ UNCHANGED <<prep, batch_conn, stage, api_vars, src_vars, procs, chain_head, net_vars,
                   blk_vars, tx_vars, date_vars>>

\* the step leaves the block: after its commit, after the commit of an empty
\* batch, or with the exception that rolled it back
scoped_release(s) ==
    /\ pool.pc[s] = "scoped"
    /\ pool' = pool_released(s)
    /\ UNCHANGED <<prep, batch_conn, stage, api_vars, src_vars, procs, chain_head, net_vars,
                   blk_vars, tx_vars, date_vars>>

\* _deactivate_destroyed_contracts and _process_claim_timestamp_check:
\* conn = await (await pool).acquire()
date_acquire ==
    /\ pool.pc["date"] = "idle"
    /\ pool.used < PoolMaxSize
    /\ pool' = pool_acquired([user |-> "date", pc |-> "selecting"])
    /\ UNCHANGED <<prep, batch_conn, stage, api_vars, src_vars, procs, chain_head, net_vars,
                   blk_vars, tx_vars, date_vars>>

\* the batch is empty (commit, conn.close(), return) or the select raises
\* (rollback, and conn.close() in finally): the step ends
date_step_ends_early ==
    /\ pool.pc["date"] = "selecting"
    /\ pool' = conn_close("date", "idle")
    /\ UNCHANGED <<prep, batch_conn, stage, api_vars, src_vars, procs, chain_head, net_vars,
                   blk_vars, tx_vars, date_vars>>

\* conn.close(); conn = None before the provider fan-out
date_fanout_starts ==
    /\ pool.pc["date"] = "selecting"
    /\ pool' = conn_close("date", "fanout")
    /\ UNCHANGED <<prep, batch_conn, stage, api_vars, src_vars, procs, chain_head, net_vars,
                   blk_vars, tx_vars, date_vars>>

\* the code check found no destroyed contract: the step ends without a
\* second connection
date_nothing_to_write ==
    /\ pool.pc["date"] = "fanout"
    /\ pool' = [pool EXCEPT !.pc["date"] = "idle"]
    /\ UNCHANGED <<prep, batch_conn, stage, api_vars, src_vars, procs, chain_head, net_vars,
                   blk_vars, tx_vars, date_vars>>

\* async with (await pool).acquire() as conn_commit, after the fan-out
date_acquire_commit ==
    /\ pool.pc["date"] = "fanout"
    /\ pool.used < PoolMaxSize
    /\ pool' = pool_acquired([user |-> "date", pc |-> "write_back"])
    /\ UNCHANGED <<prep, batch_conn, stage, api_vars, src_vars, procs, chain_head, net_vars,
                   blk_vars, tx_vars, date_vars>>

\* the write-back committed or rolled back: the block is left
date_release_commit ==
    /\ pool.pc["date"] = "write_back"
    /\ pool' = pool_released("date")
    /\ UNCHANGED <<prep, batch_conn, stage, api_vars, src_vars, procs, chain_head, net_vars,
                   blk_vars, tx_vars, date_vars>>

NextPool ==
    \/ \E s \in PoolUsers : scoped_acquire(s) \/ scoped_release(s)
    \/ date_acquire
    \/ date_step_ends_early
    \/ date_fanout_starts
    \/ date_nothing_to_write
    \/ date_acquire_commit
    \/ date_release_commit

\* the five scanner loops of one process and the pool they share
InitPool == procs = {1} /\ InitTables
SpecPool == InitPool /\ [][NextPool]_vars


(***************************************************************************)
(* SlitherAnalyzer: source preparation                                     *)
(***************************************************************************)
\* File and directory names are strings, modelled as sequences of characters;
\* a path is a sequence of names. The temp root is /d/t: TempName is the name
\* tempfile gave it, SiblingName a name that starts with TempName.
TmpDirName == <<"d">>
TempName == <<"t">>
SiblingName == <<"t", "x">>
PlainName == <<"a">>
DotDot == <<".", ".">>
Names == {TmpDirName, TempName, SiblingName, PlainName, DotDot}

\* temp_dir as tempfile.TemporaryDirectory creates it
temp_dir == <<TmpDirName, TempName>>

RECURSIVE normpath(_, _)
\* os.path.realpath on a tree without symbolic links: ".." drops the last
\* name (and stays at / on the root)
normpath(done, parts) ==
    IF parts = <<>> THEN done
    ELSE IF Head(parts) = DotDot
         THEN normpath(IF done = <<>> THEN <<>> ELSE SubSeq(done, 1, Len(done) - 1),
                       Tail(parts))
         ELSE normpath(Append(done, Head(parts)), Tail(parts))

realpath(parts) == normpath(<<>>, parts)

\* os.path.join(safe_temp_dir, relative_path): an absolute second argument
\* replaces the first
join(base, key) == IF key.absolute THEN key.parts ELSE base \o key.parts

RECURSIVE path_str(_)
\* the string of an absolute path: "/" and the name, for every name
path_str(parts) ==
    IF parts = <<>> THEN <<>>
    ELSE <<"/">> \o Head(parts) \o path_str(Tail(parts))

RECURSIVE commonprefix(_, _)
\* os.path.commonprefix of two strings: the longest common leading run of
\* characters
commonprefix(s1, s2) ==
    IF s1 = <<>> \/ s2 = <<>> \/ Head(s1) # Head(s2) THEN <<>>
    ELSE <<Head(s1)>> \o commonprefix(Tail(s1), Tail(s2))

\* the security check of _prepare_source_files
path_inside(safe_temp_dir, full_path) ==
    commonprefix(path_str(safe_temp_dir), path_str(full_path)) = path_str(safe_temp_dir)

\* os.path.dirname
dirname(parts) == IF parts = <<>> THEN <<>> ELSE SubSeq(parts, 1, Len(parts) - 1)

\* the leading parts of a path, the path itself included
ancestors(parts) == {SubSeq(parts, 1, k) : k \in 0..Len(parts)}

\* the keys of the sources map: relative or absolute paths of 1..MaxParts
\* names, each with a content object that is valid or not
SourceKeys ==
    {[absolute |-> a, parts |-> p, valid |-> v] :
        a \in BOOLEAN, v \in BOOLEAN,
        p \in UNION {[1..n -> Names] : n \in 1..MaxParts}}

\* the sources maps: 1..MaxKeys entries with distinct keys, in the order of
\* the JSON object
SourcesMaps ==
    {m \in UNION {[1..n -> SourceKeys] : n \in 1..MaxKeys} :
        \A i, j \in DOMAIN m :
            i # j => <<m[i].absolute, m[i].parts>> # <<m[j].absolute, m[j].parts>>}

\* analyze_source_code creates the temp directory and _prepare_source_files
\* starts on the entries of the map
prep_start ==
    /\ prep.pc = "idle"
    /\ prep.sources # <<>>
    /\ prep.result = "none"
    /\ prep' = [prep EXCEPT !.pc = "entries", !.dirs = ancestors(temp_dir)]
    /\ UNCHANGED <<batch_conn, stage, pool, api_vars, src_vars, procs, chain_head, net_vars, blk_vars, tx_vars, date_vars>>

\* one round of the loop over sources.items(): skip an invalid entry, raise
\* PermissionError when the check fails, otherwise makedirs and write the
\* file (an OSError when a directory is where the file should be, or a file
\* where a directory should be)
prep_entry ==
    /\ prep.pc = "entries"
    /\ prep.i <= Len(prep.sources)
    /\ LET key == prep.sources[prep.i]
           safe_temp_dir == realpath(temp_dir)
           full_path == realpath(join(safe_temp_dir, key))
           parent == dirname(full_path)
       IN  IF ~key.valid
           THEN prep' = [prep EXCEPT !.i = @ + 1]
           ELSE IF ~path_inside(safe_temp_dir, full_path)
           THEN prep' = [prep EXCEPT !.pc = "failed", !.error = "PermissionError"]
           ELSE IF \/ ancestors(parent) \cap prep.files # {}
                   \/ full_path \in prep.dirs
                   \/ full_path = <<>>
           THEN prep' = [prep EXCEPT !.pc = "failed", !.error = "OSError",
                                     !.dirs = IF ancestors(parent) \cap prep.files # {}
                                              THEN @ ELSE @ \cup ancestors(parent)]
           ELSE prep' = [prep EXCEPT !.i = @ + 1,
                                     !.dirs = @ \cup ancestors(parent),
                                     !.files = @ \cup {full_path}]
    /\ UNCHANGED <<batch_conn, stage, pool, api_vars, src_vars, procs, chain_head, net_vars, blk_vars, tx_vars, date_vars>>

\* analyze_source_code ends: a failed preparation is reported as
\* {"success": False, ...}, otherwise Slither ran; either way the temp
\* directory is removed with everything in it
prep_done ==
    /\ prep.pc \in {"entries", "failed"}
    /\ prep.pc = "entries" => prep.i > Len(prep.sources)
    /\ LET inside(path) == temp_dir \in ancestors(path)
       IN  prep' = [prep EXCEPT !.pc = "idle",
                      !.result = IF prep.pc = "failed" THEN "success: False"
                                 ELSE "slither ran",
                      !.files = {f \in @ : ~inside(f)},
                      !.dirs = {d \in @ : ~inside(d)}]
    /\ UNCHANGED <<batch_conn, stage, pool, api_vars, src_vars, procs, chain_head, net_vars, blk_vars, tx_vars, date_vars>>

NextPrep == prep_start \/ prep_entry \/ prep_done

\* one source whose source_code is a JSON object with a sources map
InitPrep ==
    /\ procs = {1}
    /\ chain_head = FinalityDepth
    /\ evm_network = [active_status |-> 1, processing_status |-> 0,
                      last_discovered_block_number |-> Null]
    /\ evm_block = <<>>
    /\ evm_tx = <<>>
    /\ evm_contract = {}
    /\ evm_contract_source = {}
    /\ contract_ai = 0
    /\ evm_airdrop = <<>>
    /\ net_w = [w \in Procs |-> net_idle]
    /\ blk_w = [w \in Procs |-> blk_idle]
    /\ tx_w = [w \in Procs |-> tx_idle]
    /\ tx_orphans = [w \in Procs |-> {}]
    /\ tx_conn = [w \in Procs |-> no_writes]
    /\ date_w = [w \in Procs |-> date_idle]
    /\ src_w = [w \in Procs |-> src_idle]
    /\ src_orphans = [w \in Procs |-> {}]
    /\ src_conn = [w \in Procs |-> src_no_writes]
    /\ api_lock = [l \in ApiLocks |-> no_call]
    /\ api_pc = [c \in ApiCalls |-> "idle"]
    /\ api_last = [client \in ApiClients |-> 0]
    /\ api_stamp = [c \in ApiCalls |-> 0]
    /\ api_started = [client \in ApiClients |-> Null]
    /\ src_facts = <<>>
    /\ api_parallel = FALSE
    /\ api_clock = 0
    /\ prep \in {[prep_idle EXCEPT !.sources = m] : m \in SourcesMaps}
    /\ batch_conn = batch_idle
    /\ stage = stage_idle
    /\ pool = pool_idle
SpecPrep == InitPrep /\ [][NextPrep]_vars

(***************************************************************************)
(* Provider clients: the rate-limit lock of _request                       *)
(***************************************************************************)
\* (mutant) every client with a lock of its own, whatever the mode
own_lock(client) ==
    IF client \in ScannerClients THEN client ELSE "api_rate_limit_lock_moralis"

\* the lock services passes to a client: a scanner client gets its own in
\* parallel mode and single_global_lock otherwise, the Moralis client always
\* gets api_rate_limit_lock_moralis
scanner_lock(client) ==
    IF client \notin ScannerClients THEN "api_rate_limit_lock_moralis"
    ELSE IF api_parallel THEN client ELSE "single_global_lock"

\* what _request adds to sleep_duration in its asyncio.sleep call: nothing in
\* EtherscanAPIClient, 0.01 s in MoralisAPIClient
sleep_extra(client) == IF client \in ScannerClients THEN 0 ELSE SleepExtra

\* a task calls a method of its client, which awaits _request; the call
\* waits for the client's lock
api_request(c) ==
    /\ api_pc[c] = "idle"
    /\ api_pc' = [api_pc EXCEPT ![c] = "waiting"]
    /\ UNCHANGED <<util_vars, api_parallel, api_lock, api_clock, api_last, api_stamp, api_started,
                   src_vars, procs, chain_head, net_vars, blk_vars, tx_vars, date_vars>>

\* async with self._lock: the call gets the free lock and reads the clock.
\* When the last request is less than the delay ago it sleeps; otherwise it
\* records now as _last_request_time and sends the request at once
api_acquire(c) ==
    /\ api_pc[c] = "waiting"
    /\ api_lock[scanner_lock(c[1])] = no_call
    /\ api_lock' = [api_lock EXCEPT ![scanner_lock(c[1])] = c]
    /\ LET now == api_clock
           time_since_last == now - api_last[c[1]]
       IN  IF time_since_last < Delay
           THEN /\ api_pc' = [api_pc EXCEPT ![c] = "sleep"]
                /\ api_stamp' = [api_stamp EXCEPT ![c] = now + (Delay - time_since_last)]
                /\ UNCHANGED <<api_last, api_started>>
           ELSE /\ api_pc' = [api_pc EXCEPT ![c] = "http"]
                /\ api_last' = [api_last EXCEPT ![c[1]] = now]
                /\ api_started' = [api_started EXCEPT ![c[1]] = api_clock]
                /\ UNCHANGED api_stamp
    /\ UNCHANGED <<util_vars, api_parallel, api_clock, src_vars, procs, chain_head, net_vars, blk_vars,
                   tx_vars, date_vars>>

\* asyncio.sleep is over - never before the time asked for, later when the
\* event loop is busy with other tasks: _last_request_time becomes
\* now + sleep_duration as computed before the sleep, and the HTTP request
\* is sent
api_send(c) ==
    /\ api_pc[c] = "sleep"
    /\ api_clock >= api_stamp[c] + sleep_extra(c[1])
    /\ api_pc' = [api_pc EXCEPT ![c] = "http"]
    /\ api_last' = [api_last EXCEPT ![c[1]] = api_stamp[c]]
    /\ api_stamp' = [api_stamp EXCEPT ![c] = 0]
    /\ api_started' = [api_started EXCEPT ![c[1]] = api_clock]
    /\ UNCHANGED <<util_vars, api_parallel, api_lock, api_clock, src_vars, procs, chain_head, net_vars,
                   blk_vars, tx_vars, date_vars>>

\* the request returns data or raises the client's error: either way the
\* async with block is left and the lock released
api_done(c) ==
    /\ api_pc[c] = "http"
    /\ api_pc' = [api_pc EXCEPT ![c] = "idle"]
    /\ api_lock' = [api_lock EXCEPT ![scanner_lock(c[1])] = no_call]
    /\ UNCHANGED <<util_vars, api_parallel, api_clock, api_last, api_stamp, api_started, src_vars,
                   procs, chain_head, net_vars, blk_vars, tx_vars, date_vars>>

\* the event loop's clock advances
api_tick ==
    /\ api_clock < MaxClock
    /\ api_clock' = api_clock + 1
    /\ UNCHANGED <<util_vars, api_parallel, api_lock, api_pc, api_last, api_stamp, api_started,
                   src_vars, procs, chain_head, net_vars, blk_vars, tx_vars, date_vars>>

NextApi ==
    \/ \E c \in ApiCalls : api_request(c)
    \/ \E c \in ApiCalls : api_acquire(c)
    \/ \E c \in ApiCalls : api_send(c)
    \/ \E c \in ApiCalls : api_done(c)
    \/ api_tick

\* one process in either mode, no call under way; the loop's clock (a
\* monotonic clock) is anywhere when the first call is made
InitApi ==
    /\ procs = {1}
    /\ chain_head = FinalityDepth
    /\ evm_network = [active_status |-> 1, processing_status |-> 0,
                      last_discovered_block_number |-> Null]
    /\ evm_block = <<>>
    /\ evm_tx = <<>>
    /\ evm_contract = {}
    /\ evm_contract_source = {}
    /\ contract_ai = 0
    /\ evm_airdrop = <<>>
    /\ all_idle
    /\ src_facts = <<>>
    /\ api_parallel \in BOOLEAN
    /\ api_clock \in {0, Delay}
SpecApi == InitApi /\ [][NextApi]_vars

(***************************************************************************)
(* Claims about the NetworkScanner                                         *)
(***************************************************************************)
\* the instances that are between their lock and their unlock transaction
holders == {w \in Procs : net_w[w].pc \in {"latest", "batch", "finish"}}

\* C1: the committed last_discovered_block_number of the network never
\* decreases, whatever the runs, failures and concurrent workers
C1_LastDiscoveredNeverDecreases ==
    [][evm_network'.last_discovered_block_number
         >= evm_network.last_discovered_block_number]_vars

\* C2: every evm_block row is inserted by a run whose provider head minus
\* finality_depth is at least the row's block_number
C2_NoBlockAboveSafeHead ==
    [][\A n \in {evm_block'[i].block_number : i \in DOMAIN evm_block'} \ block_numbers :
          \E w \in Procs : /\ net_w[w].pc = "batch"
                           /\ net_w'[w] # net_w[w]
                           /\ n <= net_w[w].latest - FinalityDepth]_vars

\* a run has committed two batches, the last one ending at the safe head
C2_Witness ==
    \E w \in Procs : /\ net_w[w].committed_end = net_w[w].safe_latest_block
                     /\ net_w[w].safe_latest_block \in net_w[w].inserted
                     /\ Cardinality(net_w[w].inserted) >= 2
                     /\ net_w[w].batch_size = CatchUpBatchSize

\* C5: between the lock and the unlock transaction of a worker no other
\* worker processes the same network
C5_OneWorkerPerNetwork == Cardinality(holders) <= 1

\* C9: when a batch fails only that batch is rolled back: what earlier batches
\* of the run committed remains, last_discovered_block_number is the end of
\* the last committed batch, and the run attempts no further batch
C9_FailedBatchOnlyRollsBackItself ==
    \A w \in Procs :
        (net_w[w].aborted /\ net_w[w].unlock = "none") =>
            /\ net_w[w].pc = "finish"
            /\ net_w[w].inserted \subseteq block_numbers
            /\ evm_network.last_discovered_block_number =
                 (IF net_w[w].committed_end # Null THEN net_w[w].committed_end
                  ELSE net_w[w].last_saved_block)

\* a batch failed after an earlier batch of the same run had inserted blocks
C9_Witness ==
    \E w \in Procs : /\ net_w[w].aborted
                     /\ net_w[w].committed_end # Null
                     /\ net_w[w].inserted # {}
                     /\ net_w[w].committed_end < net_w[w].safe_latest_block

C11_RestartResumes ==
    \A w \in Procs :
        (net_w[w].unlock = "killed" /\ net_w[w].committed_end # Null)
            ~> (/\ net_w[w].pc = "lock"
                /\ net_w[w].last_saved_block =
                      evm_network.last_discovered_block_number)

\* C12: every committed NetworkScanner batch inserts rows, the highest
\* block_number among them is the new last_discovered_block_number, and the
\* new last_discovered_block_number is not below the old one.
C12_MaxInsertedIsNewLast ==
    [][\A w \in Procs :
          (net_w[w].pc = "batch" /\ net_w'[w].committed_end # net_w[w].committed_end) =>
              LET new == {evm_block'[i].block_number : i \in DOMAIN evm_block'}
                            \ block_numbers
                  last == evm_network'.last_discovered_block_number
              IN  /\ last \in new
                  /\ \A n \in new : n <= last
                  /\ last >= evm_network.last_discovered_block_number]_vars

\* C22: when the tasks of an instance are cancelled at any await of a
\* NetworkScanner run, the batch in progress is not committed (no block row
\* appears) and the network is at processing_status = 0 afterwards
C22_CancelledRunLeavesNothing ==
    [][\A w \in Procs :
          (w \in procs /\ w \notin procs')
              => /\ evm_block' = evm_block
                 /\ evm_network'.processing_status = 0]_vars

\* the first block of the run of instance w, from the last block the run
\* read in the network row and the safe head the provider gave it
start_block(w) ==
    IF net_w[w].last_saved_block = Null THEN net_w[w].safe_latest_block
    ELSE net_w[w].last_saved_block + 1

\* C28: a run that has its safe head starts no batch when start is above the
\* safe head; otherwise its first batch begins at start, every further batch
\* begins right after the one committed before it, every batch has the size
\* of the mode (catch-up when the range is longer than the threshold, follow
\* otherwise) or is the last one and ends at the safe head, and a run that
\* leaves the loop without an exception has committed up to the safe head;
\* on a cold start that is the one block at the safe head
C28_BatchesCoverRange ==
    [][\A w \in Procs :
          LET r == net_w[w]
              q == net_w'[w]
              count == (q.safe_latest_block - start_block(w)') + 1
              size == IF count > CatchUpThreshold THEN CatchUpBatchSize
                      ELSE FollowBatchSize
          IN  /\ (r.pc = "latest" /\ q.safe_latest_block # Null) =>
                    /\ q.pc = (IF start_block(w)' > q.safe_latest_block
                               THEN "finish" ELSE "batch")
                    /\ q.committed_end = Null
                    /\ q.pc = "batch" => /\ q.current_start_block = start_block(w)'
                                         /\ q.batch_size = size
              /\ (r.pc = "batch" /\ q.committed_end # r.committed_end) =>
                    /\ r.current_start_block =
                          (IF r.committed_end = Null THEN start_block(w)
                           ELSE r.committed_end + 1)
                    /\ q.committed_end <= r.safe_latest_block
                    /\ \/ q.committed_end - r.current_start_block + 1 = size
                       \/ /\ q.committed_end - r.current_start_block + 1 \in 1..size
                          /\ q.committed_end = r.safe_latest_block
                    /\ q.pc = (IF q.committed_end = r.safe_latest_block
                               THEN "finish" ELSE "batch")
                    /\ r.last_saved_block = Null =>
                          /\ r.current_start_block = r.safe_latest_block
                          /\ q.committed_end = r.safe_latest_block
              /\ (r.pc = "batch" /\ q.pc = "batch") =>
                    /\ q.batch_size = r.batch_size
                    /\ q.safe_latest_block = r.safe_latest_block
                    /\ q.last_saved_block = r.last_saved_block
              /\ (r.pc = "batch" /\ q.pc = "finish" /\ ~q.aborted) =>
                    q.committed_end = r.safe_latest_block]_vars

\* a run in catch-up mode has left the loop without an exception after two
\* batches, the second shorter than the first, while the other instance
\* has not started
C28_Witness ==
    \E w \in Procs :
        /\ net_w[w].pc = "finish" /\ ~net_w[w].aborted
        /\ net_w[w].last_saved_block # Null
        /\ net_w[w].batch_size = CatchUpBatchSize
        /\ net_w[w].committed_end = net_w[w].safe_latest_block
        /\ (net_w[w].safe_latest_block - net_w[w].last_saved_block) % CatchUpBatchSize # 0
        /\ net_w[w].safe_latest_block - net_w[w].last_saved_block > CatchUpBatchSize

(***************************************************************************)
(* BlockScanner claims                                                     *)
(***************************************************************************)
\* the rows of the creation-transaction table that belong to block row i
txs_of_block(i) == {t \in DOMAIN evm_tx : evm_tx[t].evm_block_id = i}

\* C8: a BlockScanner batch in which a provider call (or the database) failed
\* is rolled back as a whole: the step that ends the run leaves both tables
\* as they were committed, every block of the batch has processing_status 0
\* and no creation-transaction row, and every block of the batch is free to
\* be selected by the next cycle.
C8_FailedBlockBatchRolledBack ==
    [][\A w \in Procs :
          (blk_w[w].pc = "api" /\ blk_w'[w].result = "rolled_back") =>
              /\ evm_block' = evm_block
              /\ evm_tx' = evm_tx
              /\ \A i \in blk_w[w].lease :
                    /\ evm_block'[i].processing_status = 0
                    /\ {t \in DOMAIN evm_tx' : evm_tx'[t].evm_block_id = i} = {}
                    /\ i \notin UNION {blk_w'[v].lease : v \in Procs}]_vars

\* a run was rolled back while another batch had already committed its
\* creation transactions, and the rolled back batch is whole and pending
C8_Witness ==
    \E w \in Procs :
        /\ blk_w[w].pc = "idle" /\ blk_w[w].result = "rolled_back"
        /\ Cardinality(blk_w[w].batch) = BlockBatchSize
        /\ \A i \in blk_w[w].batch :
              evm_block[i].processing_status = 0 /\ txs_of_block(i) = {}
        /\ evm_tx # <<>>

\* the creation transactions of the answer for block row i, as pairs of the
\* row id and the hash
creations_in_answer(i) ==
    LET txs == block_transactions(evm_block[i].block_number)
    IN  {<<i, txs[k].hash>> : k \in {j \in DOMAIN txs : txs[j].to = Null}}

\* C29: when a BlockScanner batch commits, the rows it adds to the
\* creation-transaction table are, one each, the transactions with to = null
\* of the answers the provider gave for the blocks of the batch, under the id
\* of their block, and every block of the batch is at processing_status 2
C29_CreationTxsExtracted ==
    [][\A w \in Procs :
          (blk_w[w].pc = "api" /\ blk_w'[w].result = "committed") =>
              LET new == (Len(evm_tx) + 1)..Len(evm_tx')
                  expected == UNION {creations_in_answer(i) :
                                        i \in {j \in blk_w[w].lease :
                                                  blk_w'[w].answers[j] = "ok"}}
              IN  /\ {<<evm_tx'[j].evm_block_id, evm_tx'[j].transaction_hash>> :
                          j \in new} = expected
                  /\ Cardinality(new) = Cardinality(expected)
                  /\ SubSeq(evm_tx', 1, Len(evm_tx)) = evm_tx
                  /\ \A i \in blk_w[w].lease : evm_block'[i].processing_status = 2]_vars

\* a batch committed that held a block with a creation and a plain
\* transaction in its answer and a block the provider had no data for
C29_Witness ==
    \E w \in Procs : \E i, j \in blk_w[w].batch :
        /\ blk_w[w].pc = "idle" /\ blk_w[w].result = "committed"
        /\ blk_w[w].answers[i] = "ok" /\ evm_block[i].block_number % 3 = 1
        /\ blk_w[w].answers[j] = "null"
        /\ \E k \in DOMAIN evm_tx : evm_tx[k].evm_block_id = i
        /\ evm_block[i].processing_status = 2 /\ evm_block[j].processing_status = 2

(***************************************************************************)
(* TxScanner claims                                                        *)
(***************************************************************************)
\* the rows some TxScanner run committed as part of its batch
tx_done == UNION {tx_w[w].done : w \in Procs}

\* C7: a TxScanner batch in which a task raised commits nothing: a creation
\* transaction that no committed batch held is committed with
\* processing_status 0 and has no evm_contract row.
C7_FailedTxBatchCommitsNothing ==
    \A i \in DOMAIN evm_tx :
        i \notin tx_done =>
            /\ evm_tx[i].processing_status = 0
            /\ \A c \in evm_contract : c.evm_tx_id # i

\* the processing_status a reader of row i sees who can look into the open
\* transactions: 1 while a run holds the row, else the committed value
block_status(i) ==
    IF \E w \in Procs : i \in blk_w[w].lease THEN 1
    ELSE evm_block[i].processing_status
tx_status(i) ==
    IF \E w \in Procs : i \in tx_w[w].lease THEN 1
    ELSE evm_tx[i].processing_status
legal_status_change(s, t) ==
    s = t \/ <<s, t>> \in {<<0, 1>>, <<1, 2>>, <<1, 0>>}

\* C3: the processing_status of an evm_block row and of a creation-transaction
\* row changes only from 0 to 1 (lease), from 1 to 2 (terminal) and from 1 to
\* 0 (rollback); a row at 2 stays at 2 and is not leased again.
C3_StatusOnlyByLease ==
    [][/\ \A i \in DOMAIN evm_block :
             legal_status_change(block_status(i), block_status(i)')
       /\ \A i \in DOMAIN evm_tx :
             legal_status_change(tx_status(i), tx_status(i)')]_vars

\* C4: in every committed state a creation-transaction row belongs to a block
\* with processing_status 2, an evm_contract row to a creation transaction
\* with processing_status 2, and an evm_contract_source row to an evm_contract
\* row of such a transaction.
C4_ChildrenOfTerminalParents ==
    /\ \A t \in DOMAIN evm_tx :
          evm_block[evm_tx[t].evm_block_id].processing_status = 2
    /\ \A c \in evm_contract : evm_tx[c.evm_tx_id].processing_status = 2
    /\ \A r \in evm_contract_source :
          \E c \in evm_contract :
              c.id = r.evm_contract_id /\ evm_tx[c.evm_tx_id].processing_status = 2

\* C13: evm_block holds one row per block_number, the creation-transaction
\* table one row per transaction_hash and evm_contract one row per
\* contract_address (all of one chain), and no batch failed on a duplicate
\* insert.
C13_UniqueRows ==
    /\ \A i, j \in DOMAIN evm_block :
          i # j => evm_block[i].block_number # evm_block[j].block_number
    /\ \A i, j \in DOMAIN evm_tx :
          i # j => evm_tx[i].transaction_hash # evm_tx[j].transaction_hash
    /\ \A r, q \in evm_contract :
          r # q => r.contract_address # q.contract_address
    /\ \A w \in Procs : tx_w[w].failure # "duplicate"

\* the evm_contract rows of creation transaction i, and the
\* evm_contract_source rows of those
contracts_of_tx(i) == {c \in evm_contract : c.evm_tx_id = i}
sources_of_tx(i) ==
    {r \in evm_contract_source : \E c \in contracts_of_tx(i) : r.evm_contract_id = c.id}

\* C30: a creation transaction at processing_status 2 has no evm_contract
\* row if its receipt names no contract address; otherwise it has one
\* evm_contract row, verified and with one evm_contract_source row if the
\* provider holds a source for the contract, unverified and without a
\* source row if not; and no contract or source row is committed for a
\* transaction that is not at processing_status 2
C30_TxOutcomeRows ==
    \A i \in DOMAIN evm_tx :
        LET kind == receipt_of(evm_tx[i].transaction_hash)
        IN  /\ evm_tx[i].processing_status = 2 =>
                  CASE kind = "no_address" -> contracts_of_tx(i) = {}
                    [] kind = "verified" ->
                         /\ Cardinality(contracts_of_tx(i)) = 1
                         /\ \A c \in contracts_of_tx(i) : c.verified
                         /\ Cardinality(sources_of_tx(i)) = 1
                    [] kind = "unverified" ->
                         /\ Cardinality(contracts_of_tx(i)) = 1
                         /\ \A c \in contracts_of_tx(i) : ~c.verified
                         /\ sources_of_tx(i) = {}
                    [] OTHER -> FALSE
            /\ evm_tx[i].processing_status # 2 => contracts_of_tx(i) = {}

(***************************************************************************)
(* Idempotence                                                             *)
(***************************************************************************)
\* the committed tables of the pipeline
tables == <<evm_network, evm_block, evm_tx, evm_contract, evm_contract_source, evm_airdrop>>

\* the step is a whole run of w's BlockScanner, TxScanner or SourceScanner
\* that finds every row of its input table at processing_status = 2
run_on_terminal_rows(w) ==
    \/ /\ blk_w[w].pc = "idle" /\ blk_w'[w].pc = "idle" /\ blk_w'[w].result = "empty"
       /\ \A i \in DOMAIN evm_block : evm_block[i].processing_status = 2
    \/ /\ tx_w'[w].runs # tx_w[w].runs
       /\ \A i \in DOMAIN evm_tx : evm_tx[i].processing_status = 2
    \/ /\ src_w'[w].runs # src_w[w].runs
       /\ \A r \in evm_contract_source : r.processing_status = 2

\* C14: a run of the BlockScanner, the TxScanner or the SourceScanner that
\* starts when every row of its input table is terminal (processing_status =
\* 2) changes no row of any table
C14_TerminalInputNoChange ==
    [][\A w \in Procs : run_on_terminal_rows(w) => UNCHANGED tables]_vars

(***************************************************************************)
(* SourceScanner claims                                                    *)
(***************************************************************************)
\* C15: every row of evm_airdrop_eligibility_contract has an
\* eligibility_function_abi that is not null and is the ABI of a function
\* with exactly one input, of type address
C15_EligibilityAbiOneAddress ==
    \A k \in DOMAIN evm_airdrop :
        evm_airdrop[k].eligibility_function_abi = function_abi(<<"address">>)

\* C16: every row of evm_airdrop_eligibility_contract with active_status = 1
\* belongs to a contract with code on the chain and, when its
\* claim_end_timestamp is known, that timestamp is later than now
C16_ActiveMeansLive ==
    \A k \in DOMAIN evm_airdrop :
        evm_airdrop[k].active_status = 1 =>
            /\ evm_airdrop[k].onchain_code # "empty"
            /\ evm_airdrop[k].claim_end_timestamp # Null =>
                   evm_airdrop[k].claim_end_timestamp > Now

\* C17: a source that misses the ABI filter, that Slither classifies 1, 2 or
\* 3, or for which the LLM answers the empty object is committed with
\* processing_status = 2 and without a row in
\* evm_airdrop_eligibility_contract when its batch commits, and no such
\* outcome ever is what aborts a batch
C17_TerminalOutcomeMarkedDone ==
    [][\A w \in Procs :
          (src_w[w].pc = "gather" /\ src_w'[w].pc = "idle") =>
              IF \A i \in src_w[w].lease : src_w[w].tasks[i].todo = <<>>
              THEN \A i \in src_w[w].lease :
                      src_w[w].tasks[i].outcome.kind \in terminal_kinds =>
                          /\ \E r \in evm_contract_source' :
                                r.evm_contract_id = i /\ r.processing_status = 2
                          /\ \A k \in DOMAIN evm_airdrop' :
                                evm_airdrop'[k].evm_contract_source_id # i
              ELSE src_w'[w].failed_by \notin terminal_kinds]_vars

\* a run committed a batch that held a source the LLM answered {} for and an
\* airdrop: the first is done without an airdrop row, the second has its row
C17_Witness ==
    \E i, j \in DOMAIN src_facts :
        /\ src_facts[i].kind = "llm_empty" /\ src_facts[j].kind = "airdrop"
        /\ src_w[1].runs = 1 /\ src_w[1].pc = "idle"
        /\ \A r \in evm_contract_source : r.processing_status = 2
        /\ \E k \in DOMAIN evm_airdrop : evm_airdrop[k].evm_contract_source_id = j
        /\ \A k \in DOMAIN evm_airdrop : evm_airdrop[k].evm_contract_source_id # i

(***************************************************************************)
(* DateScanner claims                                                      *)
(***************************************************************************)
\* C18: when a claim check ends, every row it met with a getter ABI that is
\* no JSON or has no selector is committed with that ABI column NULL, so
\* that the check of a later run does not select it
C18_BadGetterAbiNulled ==
    [][\A w \in Procs :
          (date_w[w].pc = "fanout" /\ date_w'[w].pc = "idle") =>
              \A i \in date_w[w].invalid :
                  getter_abi(evm_airdrop'[i], date_w[w].step) = "null"]_vars

\* C19: while provider calls of a DateScanner's code check or claim check
\* are in flight its connection holds no open transaction
C19_NoCallInsideTransaction ==
    \A w \in Procs : date_w[w].pc = "fanout" => ~date_w[w].txn

\* an instance waits for the eth_call results of a claim-end check while the
\* other waits for eth_getCode results
C19_Witness ==
    \E v, w \in Procs :
        /\ date_w[v].pc = "fanout" /\ date_w[v].step = "claim_end" /\ date_w[v].checking # {}
        /\ date_w[w].pc = "fanout" /\ date_w[w].step = "code"

\* C26: when a claim check commits and the eth_call of a row's getter gave a
\* number above the limit, the getter ABI of that check is NULL afterwards
\* and the row's timestamps and active_status are as before; a getter ABI
\* that is NULL stays NULL, and a claim check selects no row whose getter
\* ABI is NULL
C26_TooLargeNullsGetter ==
    [][/\ \A w \in Procs : \A i \in date_w'[w].rejected \ date_w[w].rejected :
             /\ getter_abi(evm_airdrop'[i], date_w[w].step) = "null"
             /\ evm_airdrop'[i].claim_end_timestamp = evm_airdrop[i].claim_end_timestamp
             /\ evm_airdrop'[i].claim_start_timestamp = evm_airdrop[i].claim_start_timestamp
             /\ evm_airdrop'[i].active_status = evm_airdrop[i].active_status
       /\ \A i \in DOMAIN evm_airdrop : \A check_type \in {"claim_end", "claim_start"} :
             getter_abi(evm_airdrop[i], check_type) = "null"
                 => getter_abi(evm_airdrop'[i], check_type) = "null"
       /\ \A w \in Procs :
             (date_w[w].pc = "idle" /\ date_w'[w].pc = "selected"
                  /\ date_w'[w].step \in {"claim_end", "claim_start"})
                 => \A i \in date_w'[w].locked :
                        getter_abi(evm_airdrop[i], date_w'[w].step) # "null"]_vars

\* a claim-end check has committed for a row whose getter answered with a
\* number above the limit: the getter ABI is NULL, the row is active and
\* without a claim end
C26_Witness ==
    \E w \in Procs : \E i \in date_w[w].rejected :
        /\ date_w[w].step = "claim_start"
        /\ evm_airdrop[i].claim_end_getter_abi = "null"
        /\ evm_airdrop[i].claim_end_timestamp = Null
        /\ evm_airdrop[i].active_status = 1

\* C27: while a TxScanner or SourceScanner run is at gather, at most one of
\* its per-row tasks has a statement under way on the run's connection
C27_StatementsSerialized ==
    batch_conn.pc = "gather" => Cardinality(statements_in_flight) <= 1

(***************************************************************************)
(* Provider client claims                                                  *)
(***************************************************************************)
\* the calls whose HTTP request is in flight
in_flight == {c \in ApiCalls : api_pc[c] = "http"}

\* C20: at most one request of a client instance is in flight at any time,
\* however many tasks call the client; in shared mode at most one request is
\* in flight over all scanner clients
C20_OneRequestInFlight ==
    /\ \A c, d \in in_flight : c[1] = d[1] => c = d
    /\ ~api_parallel => Cardinality({c \in in_flight : c[1] \in ScannerClients}) <= 1

\* parallel mode: requests of two clients are in flight together while a
\* second caller of one of them waits for the lock
C20_Witness ==
    /\ api_parallel
    /\ \E c, d \in in_flight : c[1] # d[1]
    /\ \E c \in in_flight, d \in ApiCalls : d[1] = c[1] /\ api_pc[d] = "waiting"

\* C24: source preparation writes no file outside the temp root, whatever
\* the keys of the sources map, and a valid entry whose key resolves outside
\* the root makes the preparation fail
C24_NoFileOutsideTempRoot ==
    /\ \A f \in prep.files : temp_dir \in ancestors(f)
    /\ \A k \in 1..(prep.i - 1) :
          prep.sources[k].valid
              => temp_dir \in ancestors(realpath(join(temp_dir, prep.sources[k])))

\* C25: an active airdrop row without a claim end whose contract has no
\* code (eth_getCode answers "0x" or a zero hex string) is deactivated after
\* finitely many DateScanner runs
C25_DestroyedEventuallyInactive ==
    \A i \in 1..NAirdrops :
        (/\ evm_airdrop[i].active_status = 1
         /\ evm_airdrop[i].claim_end_timestamp = Null
         /\ evm_airdrop[i].onchain_code = "empty") ~> (evm_airdrop[i].active_status = 0)

\* C21: for one client instance, the HTTP requests of any two consecutive
\* calls start at least the configured delay apart, however the calling
\* tasks interleave
C21_RequestsDelayApart ==
    [][\A c \in ApiCalls :
          (api_pc[c] # "http" /\ api_pc'[c] = "http" /\ api_started[c[1]] # Null)
              => api_started'[c[1]] - api_started[c[1]] >= Delay]_vars

(***************************************************************************)
(* Ownership of the tables                                                 *)
(***************************************************************************)
\* table t2 is table t1 with rows appended
rows_appended(t1, t2) == Len(t2) >= Len(t1) /\ SubSeq(t2, 1, Len(t1)) = t1

\* the ids of the evm_contract_source rows
source_ids(table) == {r.evm_contract_id : r \in table}

\* the columns of the airdrop rows the DateScanner may write
DateColumns == {"active_status", "claim_end_timestamp", "claim_start_timestamp",
                "claim_end_getter_abi", "claim_start_getter_abi"}

\* a step in which the run of a scanner of some instance moves
net_moves == \E w \in Procs : net_w'[w] # net_w[w]
blk_moves == \E w \in Procs : blk_w'[w] # blk_w[w]
tx_moves == \E w \in Procs : tx_w'[w] # tx_w[w]
src_moves == \E w \in Procs : src_w'[w] # src_w[w]
date_moves == \E w \in Procs : date_w'[w] # date_w[w]

\* C23: every write belongs to the run of the stage that owns it. evm_network
\* changes and evm_block rows appear only in NetworkScanner steps; existing
\* evm_block rows change only in BlockScanner steps and only in
\* processing_status, and creation-tx rows appear only there; creation-tx
\* rows change (in processing_status only), contracts and sources appear only
\* in TxScanner steps; source rows change and airdrop rows appear only in
\* SourceScanner steps; airdrop rows change only in DateScanner steps and
\* only in active_status, the claim timestamps and the getter ABIs
C23_StagesWriteOwnTables ==
    [][/\ (evm_network' # evm_network \/ Len(evm_block') # Len(evm_block)) => net_moves
       /\ rows_appended([i \in DOMAIN evm_block |-> evm_block[i].block_number],
                        [i \in DOMAIN evm_block' |-> evm_block'[i].block_number])
       /\ \A i \in DOMAIN evm_block :
             evm_block'[i] # evm_block[i]
                 => /\ blk_moves
                    /\ [evm_block'[i] EXCEPT !.processing_status = 0]
                           = [evm_block[i] EXCEPT !.processing_status = 0]
       /\ Len(evm_tx') # Len(evm_tx) => blk_moves
       /\ \A i \in DOMAIN evm_tx :
             evm_tx'[i] # evm_tx[i]
                 => /\ tx_moves
                    /\ [evm_tx'[i] EXCEPT !.processing_status = 0]
                           = [evm_tx[i] EXCEPT !.processing_status = 0]
       /\ evm_contract' # evm_contract => tx_moves /\ evm_contract \subseteq evm_contract'
       /\ source_ids(evm_contract_source') # source_ids(evm_contract_source) => tx_moves
       /\ (/\ source_ids(evm_contract_source') = source_ids(evm_contract_source)
           /\ evm_contract_source' # evm_contract_source) => src_moves
       /\ Len(evm_airdrop') # Len(evm_airdrop) => src_moves
       /\ \A i \in DOMAIN evm_airdrop :
             evm_airdrop'[i] # evm_airdrop[i]
                 => /\ date_moves
                    /\ \A col \in DOMAIN evm_airdrop[i] \ DateColumns :
                          evm_airdrop'[i][col] = evm_airdrop[i][col]]_vars

(***************************************************************************)
(* Leases                                                                  *)
(***************************************************************************)
\* the rows instance w works on, per stage
blk_working(w) == blk_w[w].lease
tx_working(w) == tx_w[w].lease \cup {o.tx : o \in tx_orphans[w]}
date_working(w) == date_w[w].checking

\* C6: two instances of a stage never work on the same row: the row sets of
\* the BlockScanners, of the TxScanners and of the DateScanners' code checks
\* are disjoint.
C6_LeasesDisjoint ==
    \A v, w \in Procs :
        v # w =>
            /\ blk_working(v) \cap blk_working(w) = {}
            /\ tx_working(v) \cap tx_working(w) = {}
            /\ date_working(v) \cap date_working(w) = {}

(***************************************************************************)
(* _process_source: properties of its stages                               *)
(***************************************************************************)
\* the impacts named by the detectors of the report _process_source got
reported_impacts == {stage.report[1].detectors[k] : k \in DOMAIN stage.report[1].detectors}

\* C31: the status classify_slither_report returns is 1 if success is false;
\* otherwise 3 if any detector has impact High; otherwise 2 if any has Medium;
\* otherwise 4 if any has Low; otherwise 5.
C31_ClassifiedByHighestImpact ==
    stage.report # <<>> =>
        stage.security_status =
            (IF ~stage.report[1].success THEN 1
             ELSE IF "High" \in reported_impacts THEN 3
             ELSE IF "Medium" \in reported_impacts THEN 2
             ELSE IF "Low" \in reported_impacts THEN 4
             ELSE 5)

\* a successful report with a Medium and a High detector was classified 3
C31_Witness ==
    /\ stage.report # <<>>
    /\ stage.report[1].success
    /\ {"High", "Medium"} \subseteq reported_impacts
    /\ stage.security_status = 3

\* the calls _process_source made so far
called(name) == \E k \in DOMAIN stage.calls : stage.calls[k] = name

\* the call a comes before every call b
calls_ordered(a, b) ==
    \A i, j \in DOMAIN stage.calls : stage.calls[i] = a /\ stage.calls[j] = b => i < j

\* C32: the stages run in order and each gates the next: Slither runs only
\* if the ABI filter passed, the LLM only if the static status is 4 or 5, the
\* token-metadata provider only after the LLM returned a result containing
\* eligibility_function_abi and a token address is known, and the airdrop row
\* is inserted only after all earlier stages passed.
C32_StagesGateEachOther ==
    /\ called("slither") => stage.abi_hit
    /\ called("llm") => called("slither") /\ stage.security_status \in {4, 5}
    /\ called("get_token_metadata") =>
          /\ called("llm")
          /\ stage.llm[1].kind = "object"
          /\ stage.llm[1].has_eligibility_function_abi
          /\ stage.token_address # "none"
    /\ stage.row # <<>> =>
          /\ stage.abi_hit
          /\ stage.security_status \in {4, 5}
          /\ stage.llm[1].kind = "object"
          /\ stage.llm[1].has_eligibility_function_abi
          /\ stage.metadata # "raises"
    /\ calls_ordered("check_abi", "slither")
    /\ calls_ordered("slither", "llm")
    /\ calls_ordered("llm", "eth_call")
    /\ calls_ordered("llm", "get_token_metadata")
    /\ calls_ordered("eth_call", "get_token_metadata")
    /\ calls_ordered("get_token_metadata", "save_airdrop_contract")
    /\ calls_ordered("llm", "save_airdrop_contract")

\* a row was inserted after every stage ran, the token address coming from
\* the eth_call
C32_Witness ==
    /\ stage.row # <<>>
    /\ stage.calls = <<"check_abi", "slither", "llm", "eth_call", "get_token_metadata",
                       "save_airdrop_contract">>

\* C33: a newly inserted airdrop row has active_status = 0 exactly when the
\* token metadata reports possible_spam = true (then token_analysis_status = 2
\* as well) or its claim_end_timestamp is earlier than now; in every other
\* case it has active_status = 1 and token_analysis_status = 0.
C33_InactiveIffSpamOrEnded ==
    stage.row # <<>> =>
        LET row == stage.row[1]
            spam == stage.metadata = "spam"
            ended == row.claim_end_timestamp # Null /\ row.claim_end_timestamp < Now
        IN  /\ row.active_status = 0 <=> (spam \/ ended)
            /\ spam => row.token_analysis_status = 2
            /\ ~(spam \/ ended) => row.active_status = 1 /\ row.token_analysis_status = 0

\* C34: in the claim-end and claim-start fetch, a row whose eth_call failed
\* with a transient provider error (HTTP error, network error, timeout, rate
\* limit) is left unchanged by the write-back: its getter ABI is not nulled
\* and its timestamp stays NULL, so that the next cycle selects it again.
C34_TransientErrorLeavesRow ==
    [][\A w \in Procs :
          date_w[w].pc = "fanout" =>
              \A i \in date_w'[w].failed : evm_airdrop'[i] = evm_airdrop[i]]_vars

(***************************************************************************)
(* The DB pool: properties                                                 *)
(***************************************************************************)
\* no scanner is inside a step
between_runs == \A s \in PoolUsers : pool.pc[s] = "idle"

\* C35: every connection a scanner step acquires from the pool is given
\* back when the step ends, on every path: between runs no connection is
\* checked out, and the checked-out connections never reach the maximum of
\* the pool.
C35_ConnectionsGivenBack ==
    /\ between_runs => pool.used = 0
    /\ pool.used < PoolMaxSize

\* C36: no evm_contract_source row is ever committed with processing_status
\* = 0 together with security_analysis_status # 0: when a batch fails after
\* a static-analysis result was written, the rollback restores
\* security_analysis_status = 0 for every row of the batch.
C36_PendingSourceNotAnalysed ==
    \A r \in evm_contract_source :
        r.processing_status = 0 => r.security_analysis_status = 0

(***************************************************************************)
(* NetworkScanner: gaps                                                    *)
(***************************************************************************)
\* the lowest block number that has a row
first_discovered == CHOOSE n \in block_numbers : \A k \in block_numbers : n <= k

\* C37: block discovery leaves no gaps: every block number from the first
\* discovered block up to last_discovered_block_number has a row in
\* evm_block, whatever the provider answers and whichever batches fail.
C37_NoGaps ==
    block_numbers # {} /\ evm_network.last_discovered_block_number # Null =>
        \A n \in first_discovered..evm_network.last_discovered_block_number :
            n \in block_numbers

(***************************************************************************)
(* DateScanner: deactivation is final                                      *)
(***************************************************************************)
\* C38: no scanner ever changes active_status of an airdrop row from 0 to 1:
\* a deactivated contract stays inactive, also when the claim-end write-back
\* of a selection made before the connection was closed is applied after
\* another worker deactivated the row.
C38_InactiveStaysInactive ==
    [][\A i \in DOMAIN evm_airdrop :
          evm_airdrop[i].active_status = 0 => evm_airdrop'[i].active_status = 0]_vars

(***************************************************************************)
(* BlockScanner: terminal blocks                                           *)
(***************************************************************************)
\* C39: for every evm_block committed with processing_status = 2, every
\* contract-creation transaction (to = null) the block contains has a row in
\* the creation-transaction table, whatever the provider answered for the
\* block (block data, null, or data without transactions).
C39_TerminalBlockHasItsCreations ==
    \A i \in DOMAIN evm_block :
        evm_block[i].processing_status = 2 =>
            \A c \in creations_in_answer(i) :
                \E k \in DOMAIN evm_tx :
                    evm_tx[k].evm_block_id = c[1] /\ evm_tx[k].transaction_hash = c[2]

(***************************************************************************)
(* TxScanner: progress                                                     *)
(***************************************************************************)
\* C40: under fair scheduling every pending creation-tx row whose own
\* provider calls succeed and whose source is well-formed eventually reaches
\* processing_status = 2, even when other pending rows fail on every attempt.
C40_GoodRowEventuallyDone ==
    \A i \in 1..Len(FairHashes) :
        (receipt_of(evm_tx[i].transaction_hash) = "no_address"
            /\ evm_tx[i].processing_status = 0)
        ~> evm_tx[i].processing_status = 2

====
